---- MODULE Spec2Model ----
(***************************************************************************)
(* State-machine model of the Pico FIDO OTP applet (src/src/fido/otp.c)    *)
(* and Management applet (src/src/fido/management.c).                      *)
(*                                                                         *)
(* Slot files and APDU payloads are byte sequences with the layout of      *)
(* otp_config_t; the CRC is computed bit by bit as calculate_crc does.     *)
(* The file store, the button, AES/HMAC and the serial number are          *)
(* collaborators outside the two source files; they are modelled by their  *)
(* interface (a file is the byte string last put, a read past its end is   *)
(* an arbitrary value).                                                    *)
(***************************************************************************)
EXTENDS Integers, Sequences, FiniteSets, TLC

\* ------------------------------------------------------------------ sizes
FIXED_SIZE == 16
KEY_SIZE == 16
UID_SIZE == 6
ACC_CODE_SIZE == 6
\* sizeof(otp_config_t): 16 + 6 + 16 + 6 + 1 + 1 + 1 + 1 + 2 + 2
otp_config_size == FIXED_SIZE + UID_SIZE + KEY_SIZE + ACC_CODE_SIZE + 4 + 2 + 2

CONFIG1_VALID == 1
CONFIG2_VALID == 2
CONFIG1_TOUCH == 4
CONFIG2_TOUCH == 8

EXTFLAG_UPDATE_MASK == 255
TAB_FIRST == 1
APPEND_TAB1 == 2
APPEND_TAB2 == 4
APPEND_DELAY1 == 8
APPEND_CR == 32
OATH_HOTP == 64
CHAL_RESP == 64
TKTFLAG_UPDATE_MASK == 63
PACING_10MS == 4
PACING_20MS == 8
SHORT_TICKET == 2
STATIC_TICKET == 32
HMAC_LT64 == 4
CHAL_BTN_TRIG == 8
CHAL_YUBICO == 32
CHAL_HMAC == 34
OATH_HOTP8 == 2
CFGFLAG_UPDATE_MASK == 12

SW_OK == 36864
SW_WRONG_DATA == 27264
SW_SECURITY_STATUS_NOT_SATISFIED == 27010
SW_CONDITIONS_NOT_SATISFIED == 27013
SW_INCORRECT_P1P2 == 27270
SW_INS_NOT_SUPPORTED == 27904
SW_CLA_NOT_SUPPORTED == 28160

INS_OTP == 1
INS_READ_CONFIG == 29
INS_WRITE_CONFIG == 28
INS_RESET == 30

\* ------------------------------------------------------------ C operators
RECURSIVE BitAnd(_, _)
BitAnd(a, b) ==
    IF a = 0 \/ b = 0 THEN 0
    ELSE (a % 2) * (b % 2) + 2 * BitAnd(a \div 2, b \div 2)

RECURSIVE BitXor(_, _)
BitXor(a, b) ==
    IF a = 0 THEN b
    ELSE IF b = 0 THEN a
    ELSE ((a + b) % 2) + 2 * BitXor(a \div 2, b \div 2)

BitOr(a, b) == a + b - BitAnd(a, b)

\* ~x in a uint8_t
BitNot8(a) == 255 - a

Zeros(n) == [i \in 1..n |-> 0]

Fill(n, v) == [i \in 1..n |-> v]

\* bytes [off, off+len) of a C buffer (0-based offset)
Bytes(buf, off, len) == SubSeq(buf, off + 1, off + len)

\* memcpy(dst + off, src, Len(src))
Overwrite(dst, off, src) ==
    [i \in 1..Len(dst) |->
        IF i > off /\ i <= off + Len(src) THEN src[i - off] ELSE dst[i]]

get_uint16_t_be(b) == b[1] * 256 + b[2]

put_uint16_t_be(n) == <<(n \div 256) % 256, n % 256>>

put_uint16_t_le(n) == <<n % 256, (n \div 256) % 256>>

\* A uint64_t is kept as its 8 big-endian bytes (put_uint64_t_be of it).
\* n + 1 in a uint64_t: Inc64(<<255, ..., 255>>) = <<0, ..., 0>>
RECURSIVE IncBytes(_)
IncBytes(b) ==
    IF Len(b) = 0 THEN <<>>
    ELSE IF b[Len(b)] < 255 THEN [b EXCEPT ![Len(b)] = @ + 1]
    ELSE Append(IncBytes(SubSeq(b, 1, Len(b) - 1)), 0)

Inc64_unchanged(b) == b

Inc64(b) == IncBytes(b)

\* (uint64_t) n for a uint16_t n
Widen64(n) == Zeros(6) \o put_uint16_t_be(n)

\* ------------------------------------------------------------------- CRC
\* (the tests n >= 0 only make TLC evaluate n before it recurses)
RECURSIVE crc_bits(_, _)
crc_bits(crc, i) ==
    IF i = 8 THEN crc
    ELSE LET j == crc % 2
             s == crc \div 2
             n == IF j = 1 THEN BitXor(s, 33800) ELSE s
         IN IF n >= 0 THEN crc_bits(n, i + 1) ELSE 0

RECURSIVE crc_bytes(_, _, _, _)
crc_bytes(data, data_len, idx, crc) ==
    IF idx = data_len THEN crc
    ELSE LET n == crc_bits(BitXor(crc, data[idx + 1]), 0)
         IN IF n >= 0 THEN crc_bytes(data, data_len, idx + 1, n) ELSE 0

calculate_crc(data, data_len) == crc_bytes(data, data_len, 0, 65535) % 65536

\* ---------------------------------------------------- otp_config_t fields
cfg_fixed_data(d) == Bytes(d, 0, FIXED_SIZE)

cfg_uid(d) == Bytes(d, FIXED_SIZE, UID_SIZE)

cfg_aes_key(d) == Bytes(d, FIXED_SIZE + UID_SIZE, KEY_SIZE)

cfg_acc_code(d) == Bytes(d, FIXED_SIZE + UID_SIZE + KEY_SIZE, ACC_CODE_SIZE)

cfg_fixed_size(d) == d[FIXED_SIZE + UID_SIZE + KEY_SIZE + ACC_CODE_SIZE + 1]

cfg_ext_flags(d) == d[FIXED_SIZE + UID_SIZE + KEY_SIZE + ACC_CODE_SIZE + 2]

cfg_tkt_flags(d) == d[FIXED_SIZE + UID_SIZE + KEY_SIZE + ACC_CODE_SIZE + 3]

cfg_cfg_flags(d) == d[FIXED_SIZE + UID_SIZE + KEY_SIZE + ACC_CODE_SIZE + 4]

cfg_rfu(d) == Bytes(d, FIXED_SIZE + UID_SIZE + KEY_SIZE + ACC_CODE_SIZE + 4, 2)

\* ------------------------------------------------- what the host can send
\* The first 50 bytes of an otp_config_t, in field order.
HostFields(fixed_data, uid, aes_key, acc_code, fixed_size, ext, tkt, cfg, rfu) ==
    fixed_data \o uid \o aes_key \o acc_code \o <<fixed_size, ext, tkt, cfg>> \o rfu

\* The host appends ~crc, little-endian, which gives the residue 0xF0B8.
HostSeal(body) == body \o put_uint16_t_le(65535 - calculate_crc(body, Len(body)))

AccNone == Zeros(ACC_CODE_SIZE)

AccA == Fill(ACC_CODE_SIZE, 165)

\* Yubico OTP, APPEND_CR, protected by AccA
RecY ==
    HostSeal(HostFields(Fill(16, 16), <<1, 2, 3, 4, 5, 6>>, Fill(16, 7), AccA,
                        6, 0, APPEND_CR, 0, <<0, 0>>))

\* OATH-HOTP, 6 digits, uid[4..6] = 0x0102, no access code
RecH ==
    HostSeal(HostFields(Fill(16, 32), <<0, 0, 0, 0, 1, 2>>, Fill(16, 9), AccNone,
                        0, 0, OATH_HOTP, 0, <<0, 0>>))

\* HMAC challenge-response with button trigger, no access code
RecC ==
    HostSeal(HostFields(Fill(16, 48), <<9, 9, 9, 9, 9, 9>>, Fill(16, 11), AccNone,
                        0, 0, CHAL_RESP, CHAL_HMAC + CHAL_BTN_TRIG, <<0, 0>>))

\* Yubico challenge-response only (cfg_flags = CHAL_YUBICO), no access code
RecCY ==
    HostSeal(HostFields(Fill(16, 64), <<8, 8, 8, 8, 8, 8>>, Fill(16, 13), AccNone,
                        0, 0, CHAL_RESP, CHAL_YUBICO, <<0, 0>>))

\* An update candidate: every flag bit set, other identity bytes, code AccA
RecU ==
    HostSeal(HostFields(Fill(16, 238), Fill(6, 238), Fill(16, 238), AccA,
                        15, 255, 255, 255, <<0, 0>>))

RecBadCrc == [RecY EXCEPT ![otp_config_size] = (RecY[otp_config_size] + 1) % 256]

RecBadRfu ==
    HostSeal(HostFields(Fill(16, 16), <<1, 2, 3, 4, 5, 6>>, Fill(16, 7), AccA,
                        6, 0, APPEND_CR, 0, <<0, 1>>))

RecZero == Zeros(otp_config_size)

\* 64 data bytes: record, then the access code, then padding
Payload(rec, acc, tail) == rec \o acc \o tail

\* A payload sealed over 58 bytes: RecY, four bytes, and ~crc of those 56
Payload58 == HostSeal(RecY \o <<0, 0, 0, 0>>) \o Zeros(6)

AccPairs == {<<AccNone, AccA>>, <<AccA, AccNone>>}

ConfigureRecords == {RecY, RecH, RecC, RecZero, RecBadCrc, RecBadRfu}

ConfigurePayloads ==
    {Payload(r, a[1], a[2]) : r \in ConfigureRecords, a \in AccPairs} \cup {Payload58}

UpdatePayloads == {Payload(r, a[1], a[2]) : r \in {RecU, RecBadCrc}, a \in AccPairs}

ChallengePayload == Fill(63, 65) \o <<0>>

\* <<ext_flags, tkt_flags, cfg_flags>> of stored records
StoredFlags ==
    {<<0, APPEND_CR, 0>>, <<255, TAB_FIRST + 128, PACING_10MS + STATIC_TICKET>>,
     <<0, OATH_HOTP + APPEND_TAB1, OATH_HOTP8 + PACING_20MS>>,
     <<165, CHAL_RESP, CHAL_HMAC + CHAL_BTN_TRIG>>}

\* ... and of the candidates an Update carries
CandidateFlags ==
    {<<0, 0, 0>>, <<255, 255, 255>>, <<90, OATH_HOTP + APPEND_DELAY1, PACING_20MS + 1>>,
     <<165, 128 + APPEND_TAB2, PACING_10MS + CHAL_YUBICO>>}

\* Records that differ in their flags, sealed by the host
FlagRec ==
    [fl \in StoredFlags \cup CandidateFlags |->
        HostSeal(HostFields(Fill(16, fl[2]), <<1, 2, 3, 4, 5, 6>>, Fill(16, 7), AccNone,
                            0, fl[1], fl[2], fl[3], <<0, 0>>))]

\* calculate_crc over the records the host sends, computed once
crc_of_sent ==
    [r \in {Bytes(d, 0, otp_config_size) : d \in ConfigurePayloads \cup UpdatePayloads}
            \cup {FlagRec[fl] : fl \in DOMAIN FlagRec}
        |-> calculate_crc(r, otp_config_size)]

check_crc(data) ==
    LET r == Bytes(data, 0, otp_config_size)
        crc == IF r \in DOMAIN crc_of_sent THEN crc_of_sent[r]
               ELSE calculate_crc(data, otp_config_size)
    IN crc = 61624

\* ------------------------------------------------------------ the files
EF_OTP_SLOT1 == 1
EF_OTP_SLOT2 == 2
EF_DEV_CONF == 3

FileIds == {EF_OTP_SLOT1, EF_OTP_SLOT2, EF_DEV_CONF}

file_has_data(f) == Len(f) > 0

\* What a read of the 8 bytes behind the record can return when the file
\* holds only the record: flash or stack content the code never wrote.
Garbage8 == {Zeros(8), Fill(8, 255), <<0, 5, 0, 0, 0, 0, 0, 0>>}

\* The 8 bytes at data + otp_config_size, as the code reads them.
CounterAreas(f) ==
    IF Len(f) >= otp_config_size + 8 THEN {Bytes(f, otp_config_size, 8)} ELSE Garbage8

\* ------------------------------------------------------------- the state
VARIABLES
    files,            \* persistent store: file id -> bytes (<<>>: no data)
    phy_kb,           \* phy_data.enabled_usb_itf & PHY_USB_ITF_KB (persistent)
    config_seq,       \* uint8_t
    status_byte,      \* uint8_t
    session_counter,  \* uint8_t[2]
    scanned,          \* bool
    app,              \* the applet selected on the smartcard interface
    apdu,             \* the command being or last processed
    res_APDU,         \* the response body, res_APDU_size bytes
    sw,               \* the status word returned
    pc,               \* "idle", or "wait_button" inside cmd_otp
    kbd,              \* what the last button press put in the keyboard buffer
    last,             \* the entry point that ran last and what it returned
    before_swap,      \* the store before the step, when that step was a Swap
    emitted,          \* the Yubico OTPs typed so far: <<record, use counter, session>>
    steps,            \* number of events so far
    otp_frame_rx,     \* uint8_t[70]
    otp_frame_tx,     \* uint8_t[70]
    otp_exp_seq,      \* uint8_t
    otp_curr_seq,     \* uint8_t
    send_buffer_size, \* *get_send_buffer_size(ITF_KEYBOARD)
    rdata,            \* where apdu.rdata (res_APDU) points: "apdu", "tx", "buffer"
    report,           \* the 8 bytes the last GET_REPORT returned
    host,             \* the frame the host is sending and its next fragment
    reply             \* the reply armed last and the reports served from it

vars ==
    <<files, phy_kb, config_seq, status_byte, session_counter, scanned, app, apdu,
      res_APDU, sw, pc, kbd, last, before_swap, emitted, steps, otp_frame_rx,
      otp_frame_tx,
      otp_exp_seq, otp_curr_seq, send_buffer_size, rdata, report, host, reply>>

\* The device state as one value, so that the handlers are functions of it.
Dev ==
    [files |-> files, phy_kb |-> phy_kb, config_seq |-> config_seq,
     status_byte |-> status_byte, session_counter |-> session_counter,
     scanned |-> scanned, app |-> app, apdu |-> apdu, res_APDU |-> res_APDU,
     sw |-> sw, pc |-> pc, kbd |-> kbd, scratch |-> <<>>]

Commit(s) ==
    /\ files' = s.files
    /\ phy_kb' = s.phy_kb
    /\ config_seq' = s.config_seq
    /\ status_byte' = s.status_byte
    /\ session_counter' = s.session_counter
    /\ scanned' = s.scanned
    /\ app' = s.app
    /\ apdu' = s.apdu
    /\ res_APDU' = s.res_APDU
    /\ sw' = s.sw
    /\ pc' = s.pc
    /\ kbd' = s.kbd

\* --------------------------------------------------------- management.c
TAG_USB_SUPPORTED == 1
TAG_SERIAL == 2
TAG_USB_ENABLED == 3
TAG_FORM_FACTOR == 4
TAG_VERSION == 5
TAG_DEVICE_FLAGS == 8
TAG_CONFIG_LOCK == 10
FLAG_EJECT == 128
CAP_OTP == 1
CAP_U2F == 2
CAP_OPENPGP == 8
CAP_PIV == 16
CAP_OATH == 32
CAP_FIDO2 == 512
PICO_FIDO_VERSION_MAJOR == 5
PICO_FIDO_VERSION_MINOR == 7

\* pico_serial.id
Serial == <<230, 97, 130, 4>>

\* walk_tlv over 1-byte tags and 1-byte lengths: the value of the first TLV
\* with this tag, or <<-1>> when the walk ends without it.
RECURSIVE walk_tlv(_, _)
walk_tlv(blob, tag) ==
    IF Len(blob) < 2 \/ Len(blob) < 2 + blob[2] THEN <<-1>>
    ELSE IF blob[1] = tag THEN Bytes(blob, 2, blob[2])
    ELSE walk_tlv(SubSeq(blob, 3 + blob[2], Len(blob)), tag)

cap_supported_first_byte(fs, cap) ==
    LET ef == fs[EF_DEV_CONF]
        tag_data == walk_tlv(ef, TAG_USB_ENABLED)
    IN IF file_has_data(ef) /\ tag_data # <<-1>>
       THEN BitAnd(IF Len(tag_data) = 0 THEN 0 ELSE tag_data[1], cap) # 0
       ELSE TRUE

cap_supported(fs, cap) ==
    LET ef == fs[EF_DEV_CONF]
        tag_data == walk_tlv(ef, TAG_USB_ENABLED)
        ecaps == IF Len(tag_data) = 2 THEN get_uint16_t_be(tag_data)
                 ELSE IF Len(tag_data) = 0 THEN 0 ELSE tag_data[1]
    IN IF file_has_data(ef) /\ tag_data # <<-1>>
       THEN BitAnd(ecaps, cap) # 0
       ELSE TRUE

CapBit(fs, cap) == IF cap_supported(fs, cap) THEN cap ELSE 0

\* app_exists() is FALSE for the OpenPGP and PIV applets: they are not part of
\* this build.
man_get_config(s) ==
    LET ef == s.files[EF_DEV_CONF]
        caps == CAP_FIDO2 + CAP_OTP + CAP_U2F + CAP_OATH
        head == <<TAG_USB_SUPPORTED, 2, caps \div 256, caps % 256,
                  TAG_SERIAL, 4, BitAnd(Serial[1], 3), Serial[2], Serial[3], Serial[4],
                  TAG_FORM_FACTOR, 1, 1,
                  TAG_VERSION, 3, PICO_FIDO_VERSION_MAJOR, PICO_FIDO_VERSION_MINOR, 0>>
        ecaps == CapBit(s.files, CAP_FIDO2) + CapBit(s.files, CAP_OTP)
                 + CapBit(s.files, CAP_U2F) + CapBit(s.files, CAP_OATH)
                 + CapBit(s.files, CAP_OPENPGP) + CapBit(s.files, CAP_PIV)
        tail == IF ~file_has_data(ef)
                THEN <<TAG_USB_ENABLED, 2, ecaps \div 256, ecaps % 256,
                       TAG_DEVICE_FLAGS, 1, FLAG_EJECT, TAG_CONFIG_LOCK, 1, 0>>
                ELSE ef
        body == head \o tail
    IN [s EXCEPT !.res_APDU = <<Len(body) % 256>> \o body]

cmd_read_config(s) == [man_get_config(s) EXCEPT !.sw = SW_OK]

cmd_write_config_stores_first(s) ==
    LET fs == [s.files EXCEPT ![EF_DEV_CONF] = Bytes(s.apdu.data, 1, s.apdu.nc - 1)]
    IN IF s.apdu.data[1] # s.apdu.nc - 1 THEN [s EXCEPT !.files = fs, !.sw = SW_WRONG_DATA]
       ELSE [s EXCEPT !.files = fs, !.phy_kb = cap_supported(fs, CAP_OTP), !.sw = SW_OK]

cmd_write_config(s) ==
    IF s.apdu.data[1] # s.apdu.nc - 1 THEN [s EXCEPT !.sw = SW_WRONG_DATA]
    ELSE LET fs == [s.files EXCEPT ![EF_DEV_CONF] = Bytes(s.apdu.data, 1, s.apdu.nc - 1)]
         IN [s EXCEPT !.files = fs, !.phy_kb = cap_supported(fs, CAP_OTP), !.sw = SW_OK]

\* cbor_reset() is not in these files: it either refuses or wipes the store.
cmd_factory_reset(s, wipe) ==
    [s EXCEPT !.files = IF wipe THEN [f \in FileIds |-> <<>>] ELSE @, !.sw = SW_OK]

man_process_apdu(s, wipe) ==
    IF s.apdu.header[1] # 0 THEN [s EXCEPT !.sw = SW_CLA_NOT_SUPPORTED]
    ELSE IF s.apdu.header[2] = INS_READ_CONFIG THEN cmd_read_config(s)
    ELSE IF s.apdu.header[2] = INS_WRITE_CONFIG THEN cmd_write_config(s)
    ELSE IF s.apdu.header[2] = INS_RESET THEN cmd_factory_reset(s, wipe)
    ELSE [s EXCEPT !.sw = SW_INS_NOT_SUPPORTED]

\* ------------------------------------------------------------------ otp.c
SlotFile(slot) == IF slot = 1 THEN EF_OTP_SLOT1 ELSE EF_OTP_SLOT2

HasFlag(flags, bit) == BitAnd(flags, bit) # 0

SlotTouch(f) ==
    ~HasFlag(cfg_tkt_flags(f), CHAL_RESP) \/ HasFlag(cfg_cfg_flags(f), CHAL_BTN_TRIG)

StatusOpts(fs) ==
    (IF file_has_data(fs[EF_OTP_SLOT1])
     THEN CONFIG1_VALID + (IF SlotTouch(fs[EF_OTP_SLOT1]) THEN CONFIG1_TOUCH ELSE 0)
     ELSE 0)
    + (IF file_has_data(fs[EF_OTP_SLOT2])
       THEN CONFIG2_VALID + (IF SlotTouch(fs[EF_OTP_SLOT2]) THEN CONFIG2_TOUCH ELSE 0)
       ELSE 0)

\* The bytes otp_status writes; with is_otp they start at res_APDU[1] and
\* res_APDU_size is set back to 0, so no body is returned (scratch keeps what
\* was written at res_APDU + 1).
StatusBlock(s) ==
    <<PICO_FIDO_VERSION_MAJOR, PICO_FIDO_VERSION_MINOR, 0, s.config_seq,
      StatusOpts(s.files), 0, s.status_byte>>

otp_status(s, is_otp) ==
    [s EXCEPT !.scanned = TRUE,
              !.res_APDU = IF is_otp THEN <<>> ELSE StatusBlock(s),
              !.scratch = IF is_otp THEN StatusBlock(s) ELSE <<>>,
              !.sw = SW_OK]

otp_select(s) ==
    IF cap_supported(s.files, CAP_OTP)
    THEN otp_status([s EXCEPT !.app = "otp",
                              !.config_seq =
                                  IF file_has_data(s.files[EF_OTP_SLOT1])
                                     \/ file_has_data(s.files[EF_OTP_SLOT2])
                                  THEN 1 ELSE 0],
                    FALSE)
    ELSE [s EXCEPT !.sw = 0, !.res_APDU = <<>>]

\* Yubico OTP mode: none of OATH_HOTP, SHORT_TICKET, STATIC_TICKET
IsYubicoOtp(f) ==
    /\ file_has_data(f)
    /\ ~HasFlag(cfg_tkt_flags(f), OATH_HOTP)
    /\ ~(HasFlag(cfg_cfg_flags(f), SHORT_TICKET) \/ HasFlag(cfg_cfg_flags(f), STATIC_TICKET))

\* One pass of init_otp's loop; area is what data + otp_config_size holds.
init_otp_slot(f, area) ==
    LET counter == (get_uint16_t_be(area) + 1) % 65536
    IN IF IsYubicoOtp(f) /\ counter <= 32767
       THEN Bytes(f, 0, otp_config_size) \o put_uint16_t_be(counter) \o Bytes(area, 2, 6)
       ELSE f

init_otp(s, area1, area2) ==
    IF s.scanned = FALSE
    THEN [s EXCEPT !.files[EF_OTP_SLOT1] = init_otp_slot(@, area1),
                   !.files[EF_OTP_SLOT2] = init_otp_slot(@, area2),
                   !.scanned = TRUE]
    ELSE s

\* sprintf "%d": the decimal digits in ASCII
RECURSIVE Decimal(_)
Decimal(n) == IF n < 10 THEN <<48 + n>> ELSE Decimal(n \div 10) \o <<48 + (n % 10)>>

\* sprintf(res_APDU, "%d.%d.0", ...), strlen bytes of it
VersionString ==
    Decimal(PICO_FIDO_VERSION_MAJOR) \o <<46>> \o Decimal(PICO_FIDO_VERSION_MINOR)
    \o <<46, 48>>

man_select(s, force, area1, area2) ==
    LET t == [s EXCEPT !.app = "man",
                       !.res_APDU = VersionString,
                       !.sw = SW_OK]
    IN IF force THEN init_otp(t, area1, area2) ELSE t

\* ---- otp_button_pressed
\* OATH-HOTP branch: the moving factor used and the file written, for
\* calculate_oath returning PICOKEY_OK.
ButtonOath(f, area) ==
    LET imf == IF area = Zeros(8)
               THEN Widen64(get_uint16_t_be(Bytes(cfg_uid(f), 4, 2)))
               ELSE area
    IN [kbd |-> [kind |-> "hotp", imf |-> imf, counter |-> 0, session |-> 0],
        file |-> Bytes(f, 0, otp_config_size) \o Inc64(imf),
        session |-> -1]

NextSession_stuck(session) == session

\* ++session_counter[slot - 1] on a uint8_t
NextSession(session) == (session + 1) % 256

\* Yubico OTP branch: the counters emitted, the file and session counter after.
ButtonYubico(f, area, session) ==
    LET stored == get_uint16_t_be(area)
        counter == IF stored = 0 THEN 1 ELSE stored
        nsession == NextSession(session)
        bumped == (counter + 1) % 65536
        update_counter == stored = 0 \/ (nsession = 0 /\ bumped <= 32767)
        ncounter == IF nsession = 0 THEN bumped ELSE counter
    IN [kbd |-> [kind |-> "otp", imf |-> Zeros(8), counter |-> counter, session |-> session],
        file |-> IF update_counter
                 THEN Bytes(f, 0, otp_config_size) \o put_uint16_t_be(ncounter)
                      \o Bytes(area, 2, 6)
                 ELSE f,
        session |-> nsession]

ButtonStatic(f) ==
    [kbd |-> [kind |-> "static", imf |-> Zeros(8), counter |-> 0, session |-> 0],
     file |-> f, session |-> -1]

\* The body of otp_button_pressed after init_otp; the value returned is in ret.
button_emit(s, slot, area) ==
    LET ef == SlotFile(slot)
        f == s.files[ef]
        r == IF HasFlag(cfg_tkt_flags(f), OATH_HOTP) THEN ButtonOath(f, area)
             ELSE IF HasFlag(cfg_cfg_flags(f), SHORT_TICKET)
                     \/ HasFlag(cfg_cfg_flags(f), STATIC_TICKET) THEN ButtonStatic(f)
             ELSE ButtonYubico(f, area, s.session_counter[slot])
    IN IF ~cap_supported(s.files, CAP_OTP) THEN [s |-> s, ret |-> 3]
       ELSE IF ~file_has_data(f) THEN [s |-> s, ret |-> 1]
       ELSE IF HasFlag(cfg_cfg_flags(f), CHAL_YUBICO) /\ HasFlag(cfg_tkt_flags(f), CHAL_RESP)
            THEN [s |-> s, ret |-> 2]
       ELSE [s |-> [s EXCEPT !.files[ef] = r.file,
                             !.session_counter[slot] =
                                 IF r.session = -1 THEN @ ELSE r.session,
                             !.kbd = r.kbd @@ [slot |-> slot]],
             ret |-> 0]

\* ---- cmd_otp
RfuOrCrcBad(data) == cfg_rfu(data) # <<0, 0>> \/ check_crc(data) = FALSE

AccCodeMismatch_at_58(f, data) ==
    cfg_acc_code(f) # Bytes(data, otp_config_size + ACC_CODE_SIZE, ACC_CODE_SIZE)

AccCodeMismatch(f, data) ==
    cfg_acc_code(f) # Bytes(data, otp_config_size, ACC_CODE_SIZE)

BumpSeq_unbounded(n) == n + 1

\* config_seq++ on a uint8_t
BumpSeq(n) == (n + 1) % 256

AllZero_never(data) == FALSE

\* for (c = 0; c < otp_config_size; c++) if (apdu.data[c] != 0) break: none found
AllZero(data) == \A c \in 1..otp_config_size : data[c] = 0

ConfigureImage_tail_kept(data) == data

\* memset(apdu.data + otp_config_size, 0, 8)
ConfigureImage(data) == Overwrite(data, otp_config_size, Zeros(8))

\* P1 0x01 / 0x03
cmd_configure(s, is_otp) ==
    LET data == s.apdu.data
        ef == IF s.apdu.header[3] = 1 THEN EF_OTP_SLOT1 ELSE EF_OTP_SLOT2
        f == s.files[ef]
        zeroed == ConfigureImage(data)
    IN IF file_has_data(f) /\ AccCodeMismatch(f, data)
       THEN [s EXCEPT !.sw = SW_SECURITY_STATUS_NOT_SATISFIED]
       ELSE IF ~AllZero(data)
       THEN IF RfuOrCrcBad(data)
            THEN [s EXCEPT !.sw = SW_WRONG_DATA]
            ELSE otp_status([s EXCEPT !.apdu.data = zeroed,
                                      !.files[ef] = Bytes(zeroed, 0, otp_config_size + 8),
                                      !.config_seq = BumpSeq(@)],
                            is_otp)
       ELSE otp_status([s EXCEPT !.files[ef] = <<>>, !.config_seq = BumpSeq(@)], is_otp)

MergeFlags_or(stored, new, mask) == BitOr(stored, BitAnd(new, mask))

MergeFlags(stored, new, mask) == BitOr(BitAnd(stored, BitNot8(mask)), BitAnd(new, mask))

UpdateMerge_candidate(f, data) == data

\* The candidate in apdu.data after the in-place merge with the stored record.
UpdateMerge(f, data) ==
    LET copied == Overwrite(data, 0, Bytes(f, 0, FIXED_SIZE + UID_SIZE + KEY_SIZE))
        base == FIXED_SIZE + UID_SIZE + KEY_SIZE + ACC_CODE_SIZE
    IN [copied EXCEPT
           ![base + 1] = cfg_fixed_size(f),
           ![base + 2] = MergeFlags(cfg_ext_flags(f), cfg_ext_flags(data), EXTFLAG_UPDATE_MASK),
           ![base + 3] = MergeFlags(cfg_tkt_flags(f), cfg_tkt_flags(data), TKTFLAG_UPDATE_MASK),
           ![base + 4] = IF ~HasFlag(cfg_tkt_flags(f), CHAL_RESP)
                         THEN MergeFlags(cfg_cfg_flags(f), cfg_cfg_flags(data),
                                         CFGFLAG_UPDATE_MASK)
                         ELSE cfg_cfg_flags(f)]

\* The number of bytes Update hands to file_put_data.
UpdateWriteSize == otp_config_size

\* P1 0x04 / 0x05
cmd_update(s, is_otp) ==
    LET data == s.apdu.data
        ef == IF s.apdu.header[3] = 4 THEN EF_OTP_SLOT1 ELSE EF_OTP_SLOT2
        f == s.files[ef]
        merged == UpdateMerge(f, data)
    IN IF RfuOrCrcBad(data) THEN [s EXCEPT !.sw = SW_WRONG_DATA]
       ELSE IF file_has_data(f)
       THEN IF AccCodeMismatch(f, data)
            THEN [s EXCEPT !.sw = SW_SECURITY_STATUS_NOT_SATISFIED]
            ELSE otp_status([s EXCEPT !.apdu.data = merged,
                                      !.files[ef] = Bytes(merged, 0, UpdateWriteSize),
                                      !.config_seq = BumpSeq(@)],
                            is_otp)
       ELSE otp_status(s, is_otp)

\* P1 0x06; stack is what tmp[] holds where memcpy did not reach.
cmd_swap(s, is_otp, stack) ==
    LET f1 == s.files[EF_OTP_SLOT1]
        f2 == s.files[EF_OTP_SLOT2]
        tmp == f1 \o Bytes(stack, 0, otp_config_size + 8 - Len(f1))
    IN otp_status([s EXCEPT !.files[EF_OTP_SLOT1] = IF file_has_data(f2) THEN f2 ELSE <<>>,
                            !.files[EF_OTP_SLOT2] = IF file_has_data(f1) THEN tmp ELSE <<>>,
                            !.config_seq = BumpSeq(@)],
                  is_otp)

\* P1 0x10
cmd_serial(s) ==
    [s EXCEPT !.res_APDU = <<BitAnd(Serial[1], 3), Serial[2], Serial[3], Serial[4]>>,
              !.sw = SW_OK]

\* mbedtls_md_hmac and mbedtls_aes_crypt_ecb stand outside these files; the
\* model keeps the length of what they write and a digest of their inputs.
RECURSIVE SumBytes(_)
SumBytes(b) == IF Len(b) = 0 THEN 0 ELSE b[1] + SumBytes(Tail(b))

Digest(key, msg, len) == [i \in 1..len |-> (SumBytes(key) + SumBytes(msg) + i) % 256]

RECURSIVE hmac_chal_len(_, _)
hmac_chal_len(data, chal_len) ==
    IF chal_len > 0 /\ data[64] = data[chal_len]
    THEN hmac_chal_len(data, chal_len - 1)
    ELSE chal_len

\* cmd_otp from line 507: the response is computed.
chal_compute(s) ==
    LET p1 == s.apdu.header[3]
        data == s.apdu.data
        f == s.files[IF p1 = 48 \/ p1 = 32 THEN EF_OTP_SLOT1 ELSE EF_OTP_SLOT2]
        cfg == cfg_cfg_flags(f)
        chal_len == IF HasFlag(cfg, HMAC_LT64) THEN hmac_chal_len(data, 64) ELSE 64
    IN IF p1 = 48 \/ p1 = 56
       THEN IF ~HasFlag(cfg, CHAL_HMAC)
            THEN [s EXCEPT !.sw = SW_WRONG_DATA, !.pc = "idle"]
            ELSE [s EXCEPT !.res_APDU = Digest(cfg_aes_key(f) \o cfg_uid(f),
                                               Bytes(data, 0, chal_len), 20),
                           !.status_byte = 0, !.sw = SW_OK, !.pc = "idle"]
       ELSE IF ~HasFlag(cfg, CHAL_YUBICO)
            THEN [s EXCEPT !.sw = SW_WRONG_DATA, !.pc = "idle"]
            ELSE [s EXCEPT !.res_APDU = Digest(cfg_aes_key(f), Bytes(data, 0, 6), 16),
                           !.status_byte = 0, !.sw = SW_OK, !.pc = "idle"]

\* P1 0x20 / 0x28 / 0x30 / 0x38, up to wait_button()
cmd_chal_resp(s, is_otp) ==
    LET p1 == s.apdu.header[3]
        f == s.files[IF p1 = 48 \/ p1 = 32 THEN EF_OTP_SLOT1 ELSE EF_OTP_SLOT2]
    IN IF ~file_has_data(f) THEN [s EXCEPT !.sw = SW_OK]
       ELSE IF ~HasFlag(cfg_tkt_flags(f), CHAL_RESP) THEN [s EXCEPT !.sw = SW_WRONG_DATA]
       ELSE IF HasFlag(cfg_cfg_flags(f), CHAL_BTN_TRIG)
       THEN [otp_status([s EXCEPT !.status_byte = 32], is_otp) EXCEPT !.pc = "wait_button"]
       ELSE chal_compute(s)

wait_button_return_status_kept(s, is_otp, aborted) ==
    IF aborted
    THEN [otp_status(s, is_otp) EXCEPT !.sw = SW_CONDITIONS_NOT_SATISFIED, !.pc = "idle"]
    ELSE chal_compute([s EXCEPT !.status_byte = 16])

\* cmd_otp resumed when wait_button() returns
wait_button_return(s, is_otp, aborted) ==
    IF aborted
    THEN [otp_status([s EXCEPT !.status_byte = 0], is_otp)
              EXCEPT !.sw = SW_CONDITIONS_NOT_SATISFIED, !.pc = "idle"]
    ELSE chal_compute([s EXCEPT !.status_byte = 16])

cmd_otp(s, is_otp, stack) ==
    LET p1 == s.apdu.header[3]
        p2 == s.apdu.header[4]
    IN IF p2 # 0 THEN [s EXCEPT !.sw = SW_INCORRECT_P1P2]
       ELSE IF p1 = 1 \/ p1 = 3 THEN cmd_configure(s, is_otp)
       ELSE IF p1 = 4 \/ p1 = 5 THEN cmd_update(s, is_otp)
       ELSE IF p1 = 6 THEN cmd_swap(s, is_otp, stack)
       ELSE IF p1 = 16 THEN cmd_serial(s)
       ELSE IF p1 = 19 THEN [man_get_config(s) EXCEPT !.sw = SW_OK]
       ELSE IF p1 = 48 \/ p1 = 56 \/ p1 = 32 \/ p1 = 40 THEN cmd_chal_resp(s, is_otp)
       ELSE [s EXCEPT !.sw = SW_OK]

otp_process_apdu(s, is_otp, stack) ==
    IF s.apdu.header[1] # 0 THEN [s EXCEPT !.sw = SW_CLA_NOT_SUPPORTED]
    ELSE IF cap_supported(s.files, CAP_OTP) /\ s.apdu.header[2] = INS_OTP
    THEN cmd_otp(s, is_otp, stack)
    ELSE [s EXCEPT !.sw = SW_INS_NOT_SUPPORTED]

\* ------------------------------------------------------------ the events
MaxSteps == 3

hid_vars ==
    <<otp_frame_rx, otp_frame_tx, otp_exp_seq, otp_curr_seq, send_buffer_size, rdata,
      report, host, reply>>

NoFrame == [frame |-> <<>>, seq |-> 0]

NoReply == [body |-> <<>>, sent |-> 0, state |-> "none", dropped |-> FALSE]

\* The static initialisers of the HID adapter; no report exchanged yet.
HidPowerUp ==
    /\ otp_frame_rx = Zeros(70)
    /\ otp_frame_tx = Zeros(70)
    /\ otp_exp_seq = 0
    /\ otp_curr_seq = 0
    /\ send_buffer_size = 0
    /\ report = Zeros(8)
    /\ host = NoFrame
    /\ reply = NoReply

NoApdu == [header |-> <<0, 0, 0, 0>>, data |-> <<>>, nc |-> 0]

NoKeys == [kind |-> "none", slot |-> 0, imf |-> Zeros(8), counter |-> 0, session |-> 0]

\* RAM as the static initialisers leave it
PowerUp(fs, kb) ==
    [files |-> fs, phy_kb |-> kb, config_seq |-> 1, status_byte |-> 0,
     session_counter |-> <<0, 0>>, scanned |-> FALSE, app |-> "none", apdu |-> NoApdu,
     res_APDU |-> <<>>, sw |-> 0, pc |-> "idle", kbd |-> NoKeys, scratch |-> <<>>]

Stored(rec, area) == rec \o area

Counter16(n) == put_uint16_t_be(n) \o Zeros(6)

Flash(f1, f2) == [f \in FileIds |-> IF f = EF_OTP_SLOT1 THEN f1 ELSE IF f = EF_OTP_SLOT2 THEN f2 ELSE <<>>]

\* Store contents earlier sessions can have left behind.
FlashImages ==
    {Flash(<<>>, <<>>),
     Flash(Stored(RecY, Counter16(5)), Stored(RecH, Zeros(8))),
     Flash(Stored(RecY, Counter16(32766)), Stored(RecY, Counter16(32767))),
     Flash(Stored(RecC, Zeros(8)), Stored(RecH, Widen64(7)))}

\* A session in progress: the OTP applet selected, mutating commands and
\* button presses behind it.
Running(fs, seq, sessions) ==
    [PowerUp(fs, TRUE) EXCEPT !.config_seq = seq, !.session_counter = sessions,
                              !.scanned = TRUE, !.app = "otp"]

InitStates ==
    {PowerUp(fs, TRUE) : fs \in FlashImages}
    \cup {Running(Flash(Stored(RecY, Counter16(32766)), Stored(RecY, Counter16(32767))),
                  254, <<254, 255>>),
          Running(Flash(Stored(RecY, Counter16(5)), Stored(RecH, Zeros(8))),
                  255, <<255, 0>>),
          Running(Flash(Stored(RecCY, Zeros(8)), <<>>), 1, <<0, 0>>)}

Holds(s) ==
    /\ files = s.files
    /\ phy_kb = s.phy_kb
    /\ config_seq = s.config_seq
    /\ status_byte = s.status_byte
    /\ session_counter = s.session_counter
    /\ scanned = s.scanned
    /\ app = s.app
    /\ apdu = s.apdu
    /\ res_APDU = s.res_APDU
    /\ sw = s.sw
    /\ pc = s.pc
    /\ kbd = s.kbd

Init ==
    /\ \E s \in InitStates : Holds(s)
    /\ last = [op |-> "power", ret |-> 0, arg |-> <<>>]
    /\ before_swap = <<>>
    /\ emitted = {}
    /\ steps = 0
    /\ HidPowerUp
    /\ rdata = "apdu"

\* The record an OTP is made from: fixed_data, uid and aes_key
Identity(f) == Bytes(f, 0, FIXED_SIZE + UID_SIZE + KEY_SIZE)

\* The Yubico OTP the step typed, if it typed one.
Typed(s, op, ret) ==
    IF op = "button" /\ ret = 0 /\ s.kbd.kind = "otp"
    THEN {<<Identity(s.files[SlotFile(s.kbd.slot)]), s.kbd.counter, s.kbd.session>>}
    ELSE {}

\* last.arg is what came in: the APDU as sent, the slot of the button (and
\* whether its file held a counter area), force, aborted.
Step(s, op, ret, arg) ==
    /\ steps < MaxSteps
    /\ Commit(s)
    /\ last' = [op |-> op, ret |-> ret, arg |-> arg]
    /\ before_swap' = IF op = "otp_apdu" /\ arg[1] = <<0, INS_OTP, 6, 0>> /\ ret = SW_OK
                      THEN files ELSE <<>>
    /\ emitted' = emitted \cup Typed(s, op, ret)
    /\ steps' = steps + 1
    /\ UNCHANGED hid_vars

\* Power is lost and returns: the store stays, RAM is initialised again.
PowerCycle ==
    /\ pc \in {"idle", "wait_button"}
    /\ Step(PowerUp(files, phy_kb), "power", 0, <<>>)

OtpSelect ==
    /\ pc = "idle"
    /\ LET s == otp_select(Dev) IN Step(s, "otp_select", s.sw, <<>>)

ManSelect ==
    /\ pc = "idle"
    /\ \E force \in BOOLEAN :
       \E area1 \in CounterAreas(files[EF_OTP_SLOT1]), area2 \in CounterAreas(files[EF_OTP_SLOT2]) :
          Step(man_select(Dev, force, area1, area2), "man_select", SW_OK, <<force>>)

\* An APDU reaches the selected applet with res_APDU_size = 0.
Received(hdr, data) ==
    [Dev EXCEPT !.apdu = [header |-> hdr, data |-> data, nc |-> Len(data)],
                !.res_APDU = <<>>]

OtpCommands ==
    {<<<<0, INS_OTP, p1, 0>>, d>> : p1 \in {1, 3}, d \in ConfigurePayloads}
    \cup {<<<<0, INS_OTP, p1, 0>>, d>> : p1 \in {4, 5}, d \in UpdatePayloads}
    \cup {<<<<0, INS_OTP, p1, 0>>, ChallengePayload>> : p1 \in {6, 16, 19, 32, 40, 48, 56, 2}}
    \cup {<<<<0, INS_OTP, 1, 1>>, Payload(RecH, AccNone, AccNone)>>,
          <<<<1, INS_OTP, 1, 0>>, Payload(RecH, AccNone, AccNone)>>,
          <<<<0, 2, 1, 0>>, Payload(RecH, AccNone, AccNone)>>}

SwapStacks(fs) ==
    IF Len(fs[EF_OTP_SLOT1]) = otp_config_size THEN Garbage8 ELSE {Zeros(8)}

OtpApdu ==
    /\ pc = "idle"
    /\ app = "otp"
    /\ \E c \in OtpCommands : \E stack \in SwapStacks(files) :
          LET s == otp_process_apdu(Received(c[1], c[2]), FALSE, stack)
          IN Step(s, "otp_apdu", s.sw, c)

ManCommands ==
    {<<<<0, INS_WRITE_CONFIG, 0, 0>>, <<3, TAG_USB_ENABLED, 1, CAP_OTP + CAP_U2F>>>>,
     <<<<0, INS_WRITE_CONFIG, 0, 0>>, <<4, TAG_USB_ENABLED, 2, 2, CAP_U2F>>>>,
     <<<<0, INS_WRITE_CONFIG, 0, 0>>, <<9, TAG_USB_ENABLED, 1, CAP_U2F>>>>,
     <<<<0, INS_READ_CONFIG, 0, 0>>, <<>>>>,
     <<<<0, INS_RESET, 0, 0>>, <<>>>>}

ManApdu ==
    /\ pc = "idle"
    /\ app = "man"
    /\ \E c \in ManCommands : \E wipe \in BOOLEAN :
          LET s == man_process_apdu(Received(c[1], c[2]), wipe)
          IN Step(s, "man_apdu", s.sw, c)

ButtonPressed ==
    /\ pc = "idle"
    /\ \E slot \in {1, 2} :
       \E area1 \in CounterAreas(files[EF_OTP_SLOT1]), area2 \in CounterAreas(files[EF_OTP_SLOT2]) :
          LET t == init_otp(Dev, area1, area2)
          IN \E area \in CounterAreas(t.files[SlotFile(slot)]) :
                LET r == button_emit(t, slot, area)
                    stored == Len(t.files[SlotFile(slot)]) >= otp_config_size + 8
                IN Step(r.s, "button", r.ret, <<slot, stored>>)

WaitButtonReturn ==
    /\ pc = "wait_button"
    /\ \E aborted \in BOOLEAN :
          LET s == wait_button_return(Dev, FALSE, aborted)
          IN Step(s, "wait_button", s.sw, <<aborted>>)

Next ==
    \/ PowerCycle
    \/ OtpSelect
    \/ ManSelect
    \/ OtpApdu
    \/ ManApdu
    \/ ButtonPressed
    \/ WaitButtonReturn

Spec == Init /\ [][Next]_vars

\* ------------------------------------------------- the HID frame adapter
MaxFrames == 2

BitNot16(a) == 65535 - a

\* The adapter's globals and the device as one value; armed and ret note
\* whether the callback called otp_send_frame and what the dispatcher returned.
Hid ==
    [dev |-> Dev, otp_frame_rx |-> otp_frame_rx, otp_frame_tx |-> otp_frame_tx,
     otp_exp_seq |-> otp_exp_seq, otp_curr_seq |-> otp_curr_seq,
     send_buffer_size |-> send_buffer_size, rdata |-> rdata,
     armed |-> FALSE, ret |-> 0]

HidCommit(h) ==
    /\ Commit(h.dev)
    /\ otp_frame_rx' = h.otp_frame_rx
    /\ otp_frame_tx' = h.otp_frame_tx
    /\ otp_exp_seq' = h.otp_exp_seq
    /\ otp_curr_seq' = h.otp_curr_seq
    /\ send_buffer_size' = h.send_buffer_size
    /\ rdata' = h.rdata

\* What the host puts in a frame: 64 bytes of payload, the command byte, the
\* CRC of the payload (little endian), three bytes of padding.
HidFrame(data, slot_id, crc) == data \o <<slot_id>> \o put_uint16_t_le(crc) \o Zeros(3)

HidPayloads == {Zeros(64), ChallengePayload, Payload(RecY, AccNone, AccNone)}

\* calculate_crc over the payloads the host sends, computed once
crc_of_frame == [d \in HidPayloads |-> calculate_crc(d, 64)]

Framed(data, slot_id) == HidFrame(data, slot_id, crc_of_frame[data])

\* Store contents for the HID sessions; the second has a device
\* configuration of 14 bytes, so that P1 0x13 answers 33 bytes.
DevConf14 ==
    <<TAG_USB_ENABLED, 2, 2, CAP_OTP + CAP_U2F, TAG_DEVICE_FLAGS, 1, FLAG_EJECT,
      TAG_CONFIG_LOCK, 1, 0, 6, 2, 0, 0>>

\* A configuration of n bytes (n in 6..261) that leaves OTP enabled
ConfOf(n) ==
    <<TAG_USB_ENABLED, 2, 2, CAP_OTP + CAP_U2F, TAG_DEVICE_FLAGS, n - 6>>
    \o Fill(n - 6, FLAG_EJECT)

HidImages ==
    {Flash(Stored(RecC, Zeros(8)), Stored(RecH, Zeros(8))),
     [Flash(Stored(RecCY, Zeros(8)), <<>>) EXCEPT ![EF_DEV_CONF] = DevConf14]}

\* apdu as otp_hid_set_report_cb fills it
HidApdu(rx) == [header |-> <<0, INS_OTP, rx[65], 0>>, data |-> rx, nc |-> 64]

\* Bodies the commands answer on these stores (serial, the challenge
\* responses, the two configurations) and what a reset leaves of them;
\* calculate_crc over them is computed once. A body outside this table is
\* computed by calculate_crc when it is sent.
ReplyBodies ==
    LET answers ==
            {<<2, 97, 130, 4>>,
             <<55, 56, 57, 58, 59, 60, 61, 62, 63, 64, 65, 66, 67, 68, 69, 70>>,
             <<87, 88, 89, 90, 91, 92, 93, 94, 95, 96, 97, 98, 99, 100, 101, 102>>,
             <<0, 1, 2, 3, 4, 5, 6, 7, 8, 9, 10, 11, 12, 13, 14, 15, 16, 17, 18, 19>>,
             <<230, 231, 232, 233, 234, 235, 236, 237, 238, 239, 240, 241, 242, 243,
               244, 245, 246, 247, 248, 249>>,
             <<28, 1, 2, 2, 35, 2, 4, 2, 97, 130, 4, 4, 1, 1, 5, 3, 5, 7, 0, 3, 2, 2,
               59, 8, 1, 128, 10, 1, 0>>,
             <<32, 1, 2, 2, 35, 2, 4, 2, 97, 130, 4, 4, 1, 1, 5, 3, 5, 7, 0, 3, 2, 2,
               3, 8, 1, 128, 10, 1, 0, 6, 2, 0, 0>>}
        long ==
            {<<18 + n, 1, 2, 2, 35, 2, 4, 2, 97, 130, 4, 4, 1, 1, 5, 3, 5, 7, 0>> \o ConfOf(n) :
                n \in {49, 50, 51}}
    IN answers \cup long \cup {Zeros(Len(b)) : b \in answers \cup long}

crc_of_reply == [b \in ReplyBodies |-> calculate_crc(b, Len(b))]

reply_crc(frame, frame_len) ==
    IF Bytes(frame, 0, frame_len) \in DOMAIN crc_of_reply
    THEN crc_of_reply[Bytes(frame, 0, frame_len)]
    ELSE calculate_crc(frame, frame_len)

otp_send_frame_floor(h, frame_len) ==
    [h EXCEPT !.otp_frame_tx = Overwrite(@, frame_len,
                                         put_uint16_t_le(BitNot16(reply_crc(@, frame_len)))),
              !.send_buffer_size = frame_len + 2,
              !.otp_exp_seq = (frame_len + 2) \div 7,
              !.otp_curr_seq = 0,
              !.armed = TRUE]

\* otp_send_frame(otp_frame_tx, frame_len); CRC bytes put at otp_frame_tx + 70
\* or beyond land outside the frame.
otp_send_frame(h, frame_len) ==
    LET crc == reply_crc(h.otp_frame_tx, frame_len)
        len == frame_len + 2
    IN [h EXCEPT !.otp_frame_tx = Overwrite(@, frame_len, put_uint16_t_le(BitNot16(crc))),
                 !.send_buffer_size = len,
                 !.otp_exp_seq = (len \div 7) + (IF len % 7 # 0 THEN 1 ELSE 0),
                 !.otp_curr_seq = 0,
                 !.armed = TRUE]

BadCrcFrame == HidFrame(Zeros(64), 16, (crc_of_frame[Zeros(64)] + 1) % 65536)

HidFrames ==
    {Framed(Zeros(64), 16), Framed(Zeros(64), 2), Framed(Zeros(64), 19),
     Framed(ChallengePayload, 48), Framed(ChallengePayload, 32),
     Framed(Payload(RecY, AccNone, AccNone), 3), BadCrcFrame}

\* The SET_REPORT carrying fragment seq of a frame.
Fragment(frame, seq) == Bytes(frame, 7 * seq, 7) \o <<128 + seq>>

ResetReport == Zeros(7) \o <<255>>

residual_crc_ignored(rx) == rx[66] + rx[67] * 256

residual_crc(rx) ==
    IF Bytes(rx, 0, 64) \in DOMAIN crc_of_frame THEN crc_of_frame[Bytes(rx, 0, 64)]
    ELSE calculate_crc(rx, 64)

get_uint16_t_le(b) == b[1] + b[2] * 256

\* apdu as otp_hid_set_report_cb fills it; apdu.rlen keeps the value the
\* command before left, and apdu.rdata is otp_frame_tx.
HidReceived(h, rx) ==
    [h.dev EXCEPT !.apdu = HidApdu(rx),
                  !.res_APDU = Bytes(h.otp_frame_tx, 0, Len(h.dev.res_APDU))]

\* otp_frame_tx after a handler wrote through res_APDU: a body from byte 0,
\* or the status bytes from byte 1.
Landed(h, s) ==
    IF h.rdata # "tx" THEN h.otp_frame_tx
    ELSE IF s.scratch # <<>> THEN Overwrite(h.otp_frame_tx, 1, s.scratch)
    ELSE Overwrite(h.otp_frame_tx, 0, s.res_APDU)

\* otp_hid_set_report_cb once otp_process_apdu has returned (s.pc = "idle");
\* with s.pc = "wait_button" the callback is still inside cmd_otp.
hid_return(h, s) ==
    LET h1 == [h EXCEPT !.dev = [s EXCEPT !.scratch = <<>>],
                        !.ret = IF s.pc = "idle" THEN s.sw ELSE 0,
                        !.otp_frame_rx = s.apdu.data,
                        !.otp_frame_tx = Landed(h, s)]
    IN IF s.pc = "idle" /\ s.sw = SW_OK /\ Len(s.res_APDU) > 0
       THEN otp_send_frame(h1, Len(s.res_APDU))
       ELSE h1

otp_hid_set_report_cb(h, buffer, stack) ==
    IF buffer[8] = 255
    THEN [h EXCEPT !.send_buffer_size = 0, !.otp_curr_seq = 0, !.otp_exp_seq = 0,
                   !.otp_frame_tx = Zeros(70),
                   !.dev.res_APDU = IF h.rdata = "tx" THEN Zeros(Len(@)) ELSE @]
    ELSE IF BitAnd(buffer[8], 128) # 0 /\ BitAnd(buffer[8], 31) < 10
    THEN LET rseq == BitAnd(buffer[8], 31)
             rx == Overwrite(IF rseq = 0 THEN Zeros(70) ELSE h.otp_frame_rx,
                             rseq * 7, Bytes(buffer, 0, 7))
             h0 == [h EXCEPT !.otp_frame_rx = rx]
             rcrc == get_uint16_t_le(Bytes(rx, 65, 2))
         IN IF rseq = 9 /\ residual_crc(rx) = rcrc
            THEN LET t == [h0 EXCEPT !.rdata = "tx"]
                 IN hid_return(t, otp_process_apdu(HidReceived(t, rx), TRUE, stack))
            ELSE h0
    ELSE h

Min(a, b) == IF a < b THEN a ELSE b

\* otp_hid_get_report_cb: the adapter after it and the 8 bytes returned;
\* buffer[0] of a status report is not written (b0 is what it held), and a
\* fragment read at otp_frame_tx + 70 or beyond returns what lies there (b0).
otp_hid_get_report_cb(h, b0) ==
    IF h.send_buffer_size > 0
    THEN LET seq == h.otp_curr_seq
             n == Min(7, h.send_buffer_size)
         IN [h |-> [h EXCEPT !.otp_curr_seq = (seq + 1) % 256,
                             !.send_buffer_size = @ - n],
             buffer |-> [i \in 1..7 |->
                            IF i > n THEN 0
                            ELSE IF 7 * seq + i <= Len(h.otp_frame_tx)
                            THEN h.otp_frame_tx[7 * seq + i]
                            ELSE b0]
                        \o <<BitOr(64, seq)>>]
    ELSE IF h.otp_curr_seq = h.otp_exp_seq /\ h.otp_exp_seq > 0
    THEN [h |-> [h EXCEPT !.otp_curr_seq = 0, !.otp_exp_seq = 0],
          buffer |-> Zeros(7) \o <<64>>]
    ELSE LET s == otp_status(h.dev, TRUE)
         IN [h |-> [h EXCEPT !.dev = [s EXCEPT !.sw = h.dev.sw, !.scratch = <<>>],
                             !.rdata = "buffer"],
             buffer |-> <<b0>> \o s.scratch]

\* cmd_otp resumed over HID: apdu.rdata = rdata_bk unless the wait was
\* aborted, then the rest of otp_hid_set_report_cb.
hid_wait_button_return(h, aborted) ==
    LET t == IF aborted THEN h ELSE [h EXCEPT !.rdata = "tx"]
    IN hid_return(t, wait_button_return(t.dev, TRUE, aborted))

\* response || ~crc16(response), as the host expects a reply
ReplyBody(response) ==
    response \o put_uint16_t_le(BitNot16(reply_crc(response, Len(response))))

\* ceil(len / 7)
Fragments(len) == (len + 6) \div 7

\* The CRC a host computes over 64 bytes of payload, and a frame whose CRC
\* field (bytes 65 and 66, little endian) is not that.
HostCrc(data) ==
    IF data \in DOMAIN crc_of_frame THEN crc_of_frame[data] ELSE calculate_crc(data, 64)

BadCrc(rx) == HostCrc(Bytes(rx, 0, 64)) # rx[66] + rx[67] * 256

Armed(h) == [NoReply EXCEPT !.body = ReplyBody(h.dev.res_APDU), !.state = "armed"]

\* What the host expects of the reply armed last: armed (sent of its
\* fragments read), done (its sentinel read), cut (a SET_REPORT came in
\* before that), reset (a 0xFF report and no reply since; dropped when a
\* frame with a bad CRC was completed since).
ReplyAfterSet(h, buffer) ==
    IF buffer[8] = 255 THEN [NoReply EXCEPT !.state = "reset"]
    ELSE IF h.armed THEN Armed(h)
    ELSE LET r == IF reply.state \in {"armed", "done"}
                  THEN [NoReply EXCEPT !.state = "cut"] ELSE reply
         IN IF buffer[8] = 128 + 9 /\ BadCrc(h.otp_frame_rx)
            THEN [r EXCEPT !.dropped = TRUE] ELSE r

ReplyAfterGet ==
    IF reply.state # "armed" THEN reply
    ELSE IF reply.sent < Fragments(Len(reply.body)) THEN [reply EXCEPT !.sent = @ + 1]
    ELSE [reply EXCEPT !.state = "done"]

HidInit ==
    /\ \E fs \in HidImages : Holds(PowerUp(fs, TRUE))
    /\ last = [op |-> "power", ret |-> 0, arg |-> <<>>]
    /\ before_swap = <<>>
    /\ emitted = {}
    /\ steps = 0
    /\ HidPowerUp
    /\ rdata = "apdu"

\* A SET_REPORT reaches the device; last.ret is what the dispatcher returned
\* when the report made the callback run it to its end.
SetReport(buffer, next_host, count) ==
    \E stack \in SwapStacks(files) :
        LET h == otp_hid_set_report_cb(Hid, buffer, stack)
        IN /\ HidCommit(h)
           /\ last' = [op |-> "set_report", ret |-> h.ret, arg |-> <<buffer>>]
           /\ reply' = ReplyAfterSet(h, buffer)
           /\ host' = next_host
           /\ steps' = steps + count
           /\ UNCHANGED <<report, before_swap, emitted>>

\* The host sends the fragments of a frame in order.
HidSendsFragment ==
    /\ pc = "idle"
    /\ IF host.seq = 0
       THEN /\ steps < MaxFrames
            /\ \E f \in HidFrames : SetReport(Fragment(f, 0), [frame |-> f, seq |-> 1], 1)
       ELSE SetReport(Fragment(host.frame, host.seq),
                      IF host.seq = 9 THEN NoFrame ELSE [host EXCEPT !.seq = @ + 1], 0)

\* The host sends the last fragment of a frame on its own.
HidSendsLastOnly ==
    /\ pc = "idle"
    /\ host.seq = 0
    /\ steps < MaxFrames
    /\ \E f \in HidFrames : SetReport(Fragment(f, 9), NoFrame, 1)

\* The host resets the adapter between two frames.
HidSendsReset ==
    /\ host.seq = 0
    /\ steps < MaxFrames
    /\ SetReport(ResetReport, NoFrame, 1)

\* What buffer[0] can hold when otp_hid_get_report_cb is entered.
StaleBytes == {0, 255}

\* GET_REPORT, between frames and while cmd_otp waits for the button.
HidGetReport ==
    /\ host.seq = 0
    /\ \E b0 \in StaleBytes :
          LET r == otp_hid_get_report_cb(Hid, b0)
          IN /\ HidCommit(r.h)
             /\ report' = r.buffer
             /\ last' = [op |-> "get_report", ret |-> 0, arg |-> <<>>]
             /\ reply' = ReplyAfterGet
             /\ UNCHANGED <<host, steps, before_swap, emitted>>

HidWaitButtonReturn ==
    /\ pc = "wait_button"
    /\ \E aborted \in BOOLEAN :
          LET h == hid_wait_button_return(Hid, aborted)
          IN /\ HidCommit(h)
             /\ last' = [op |-> "wait_button", ret |-> h.ret, arg |-> <<aborted>>]
             /\ reply' = IF h.armed THEN Armed(h) ELSE reply
             /\ UNCHANGED <<report, host, steps, before_swap, emitted>>

HidNext ==
    \/ HidSendsFragment
    \/ HidSendsLastOnly
    \/ HidSendsReset
    \/ HidGetReport
    \/ HidWaitButtonReturn

HidSpec == HidInit /\ [][HidNext]_vars

\* The host keeps polling: a GET_REPORT that is due is eventually served.
HidLive == HidSpec /\ WF_vars(HidGetReport)

\* ============================================================ the claims
\* The step observed in `last`: an OTP APDU that cmd_otp dispatched on P1.
OtpCmd(l, p1s) ==
    /\ l.op = "otp_apdu"
    /\ l.arg[1][1] = 0
    /\ l.arg[1][2] = INS_OTP
    /\ l.arg[1][4] = 0
    /\ l.arg[1][3] \in p1s

\* The command data as the host sent it
Sent(l) == l.arg[2]

\* The slot file a Configure / Update APDU names
Target(l) == IF l.arg[1][3] \in {1, 4} THEN EF_OTP_SLOT1 ELSE EF_OTP_SLOT2

ValidBit(ef) == IF ef = EF_OTP_SLOT1 THEN CONFIG1_VALID ELSE CONFIG2_VALID

\* rfu == 0 and crc16 == 0xF0B8 over the 52 bytes of otp_config_t
Valid52(d) ==
    /\ Bytes(d, 48, 2) = <<0, 0>>
    /\ crc_of_sent[Bytes(d, 0, otp_config_size)] = 61624

SpecRecordSize == otp_config_size + 6

crc58_of_sent ==
    [d \in ConfigurePayloads \cup UpdatePayloads |-> calculate_crc(d, SpecRecordSize)]

\* rfu == 0 and crc16 == 0xF0B8 over a record of 58 bytes, rfu taken both
\* where the table of fields puts it and right before the CRC
Valid58(d) ==
    /\ Bytes(d, 48, 2) = <<0, 0>>
    /\ Bytes(d, SpecRecordSize - 4, 2) = <<0, 0>>
    /\ crc58_of_sent[d] = 61624

\* ---- C1
\* C1 as stated: for every 58-byte candidate R with rfu == 0 and crc16(R) ==
\* 0xF0B8, a Configure on an empty slot, or on a populated slot whose access
\* code matches the 6 bytes behind R, leaves the slot holding R followed by 8
\* zero bytes; the status block shows CONFIG_VALID and config_seq + 1.
C1_AsStated ==
    [][(/\ OtpCmd(last', {1, 3})
        /\ cap_supported(files, CAP_OTP)
        /\ Valid58(Sent(last'))
        /\ \/ ~file_has_data(files[Target(last')])
           \/ cfg_acc_code(files[Target(last')])
                = Bytes(Sent(last'), SpecRecordSize, ACC_CODE_SIZE))
       => (/\ sw' = SW_OK
           /\ files'[Target(last')] = Bytes(Sent(last'), 0, SpecRecordSize) \o Zeros(8)
           /\ Len(res_APDU') = 7
           /\ HasFlag(res_APDU'[5], ValidBit(Target(last')))
           /\ res_APDU'[4] = config_seq + 1)]_vars

\* C1 (amended): for every 52-byte candidate R (sizeof(otp_config_t)) with
\* rfu == 0 and crc16(R) == 0xF0B8, a Configure on an empty slot, or on a
\* populated slot whose stored acc_code equals the 6 bytes at APDU offset 52,
\* returns 0x9000, leaves the slot holding R followed by 8 zero bytes, and
\* the status block shows CONFIG_VALID and config_seq + 1 modulo 256.
C1_Configure ==
    [][(/\ OtpCmd(last', {1, 3})
        /\ cap_supported(files, CAP_OTP)
        /\ Valid52(Sent(last'))
        /\ \/ ~file_has_data(files[Target(last')])
           \/ cfg_acc_code(files[Target(last')])
                = Bytes(Sent(last'), otp_config_size, ACC_CODE_SIZE))
       => (/\ sw' = SW_OK
           /\ files'[Target(last')] = Bytes(Sent(last'), 0, otp_config_size) \o Zeros(8)
           /\ Len(res_APDU') = 7
           /\ HasFlag(res_APDU'[5], ValidBit(Target(last')))
           /\ res_APDU'[4] = (config_seq + 1) % 256)]_vars

\* A populated slot was replaced with the matching access code, the bytes
\* behind the record were not zero, and config_seq wrapped to 0.
C1_Witness ==
    /\ OtpCmd(last, {1})
    /\ Sent(last) = Payload(RecY, AccA, AccNone)
    /\ sw = SW_OK
    /\ files[EF_OTP_SLOT1] = RecY \o Zeros(8)
    /\ res_APDU = <<PICO_FIDO_VERSION_MAJOR, PICO_FIDO_VERSION_MINOR, 0, 0,
                    StatusOpts(files), 0, 0>>

\* ---- C2
\* A successful configure, delete, update of a populated slot, or swap
MutatingSuccess(l, fs, ret) ==
    /\ ret = SW_OK
    /\ cap_supported(fs, CAP_OTP)
    /\ \/ OtpCmd(l, {1, 3, 6})
       \/ OtpCmd(l, {4, 5}) /\ file_has_data(fs[Target(l)])

\* C2 as stated: every successful mutating operation increments config_seq
\* by exactly one, and no other operation changes or lowers it.
C2_AsStated ==
    [][last'.op # "power"
       => IF MutatingSuccess(last', files, sw')
          THEN config_seq' = config_seq + 1
          ELSE config_seq' = config_seq]_vars

\* C2 (amended): every successful configure, delete, update of a populated
\* slot and swap adds one to config_seq modulo 256 (255 goes to 0); a
\* successful OTP applet select sets it to 1 when a slot has data and to 0
\* when both are empty; no other operation changes it.
C2_ConfigSeq ==
    [][last'.op # "power"
       => IF MutatingSuccess(last', files, sw')
          THEN config_seq' = (config_seq + 1) % 256
          ELSE IF last'.op = "otp_select" /\ last'.ret = SW_OK
          THEN config_seq' = IF file_has_data(files[EF_OTP_SLOT1])
                                \/ file_has_data(files[EF_OTP_SLOT2]) THEN 1 ELSE 0
          ELSE config_seq' = config_seq]_vars

\* A swap took config_seq from 255 to 0.
C2_Witness ==
    /\ OtpCmd(last, {6})
    /\ sw = SW_OK
    /\ config_seq = 0
    /\ steps = 1

\* ---- C3
\* C3 as stated: a Configure or Update on a populated slot whose 6 bytes at
\* APDU offset 58 differ from the stored acc_code returns 0x6982 and leaves
\* the slot file and config_seq unchanged.
C3_AsStated ==
    [][(/\ OtpCmd(last', {1, 3, 4, 5})
        /\ cap_supported(files, CAP_OTP)
        /\ file_has_data(files[Target(last')])
        /\ cfg_acc_code(files[Target(last')])
             # Bytes(Sent(last'), SpecRecordSize, ACC_CODE_SIZE))
       => (/\ sw' = SW_SECURITY_STATUS_NOT_SATISFIED
           /\ files' = files
           /\ config_seq' = config_seq)]_vars

\* C3 (amended): on a populated slot whose stored acc_code differs from the
\* 6 bytes at APDU offset 52, a Configure returns 0x6982, an Update returns
\* 0x6982 when the candidate has rfu == 0 and a good CRC and 0x6A80
\* otherwise; the slot files and config_seq stay as they were.
C3_AccessCode ==
    [][(/\ OtpCmd(last', {1, 3, 4, 5})
        /\ cap_supported(files, CAP_OTP)
        /\ file_has_data(files[Target(last')])
        /\ cfg_acc_code(files[Target(last')])
             # Bytes(Sent(last'), otp_config_size, ACC_CODE_SIZE))
       => (/\ sw' = IF OtpCmd(last', {4, 5}) /\ ~Valid52(Sent(last'))
                    THEN SW_WRONG_DATA ELSE SW_SECURITY_STATUS_NOT_SATISFIED
           /\ files' = files
           /\ config_seq' = config_seq)]_vars

\* A Configure was refused: the bytes at offset 52 are not the stored access
\* code, while those at offset 58 are.
C3_Witness ==
    /\ OtpCmd(last, {1})
    /\ sw = SW_SECURITY_STATUS_NOT_SATISFIED
    /\ file_has_data(files[EF_OTP_SLOT1])
    /\ cfg_acc_code(files[EF_OTP_SLOT1]) # Bytes(Sent(last), otp_config_size, ACC_CODE_SIZE)
    /\ cfg_acc_code(files[EF_OTP_SLOT1]) = Bytes(Sent(last), SpecRecordSize, ACC_CODE_SIZE)

\* ---- C4
\* C4: an OTP or Management APDU that returns a status word other than
\* 0x9000 leaves the slot files, EF_DEV_CONF and config_seq as they were.
C4_NoPartialWrites ==
    [][(/\ last'.op \in {"otp_apdu", "man_apdu", "wait_button"}
        /\ pc' = "idle"
        /\ sw' # SW_OK)
       => (files' = files /\ config_seq' = config_seq)]_vars

\* A WRITE CONFIG with a bad length byte was refused with a store that
\* holds records.
C4_Witness ==
    /\ last.op = "man_apdu"
    /\ last.arg[1][2] = INS_WRITE_CONFIG
    /\ sw = SW_WRONG_DATA
    /\ file_has_data(files[EF_OTP_SLOT1])
    /\ ~file_has_data(files[EF_DEV_CONF])

\* ---- C5
\* The 16-bit use counter a slot file stores
UseCounter(f) == get_uint16_t_be(Bytes(f, otp_config_size, 2))

HasCounterArea(f) == Len(f) = otp_config_size + 8

\* C5 as stated: whichever operation comes first after power-up (button
\* press, OTP applet select), each slot holding a Yubico-OTP record has its
\* stored use counter incremented once if the result is <= 0x7FFF.
C5_AsStated ==
    [][(/\ last.op = "power"
        /\ scanned = FALSE
        /\ last'.op \in {"button", "otp_select"})
       => \A ef \in {EF_OTP_SLOT1, EF_OTP_SLOT2} :
             (/\ IsYubicoOtp(files[ef])
              /\ HasCounterArea(files[ef])
              /\ UseCounter(files[ef]) + 1 <= 32767)
             => (/\ HasCounterArea(files'[ef])
                 /\ UseCounter(files'[ef]) = UseCounter(files[ef]) + 1)]_vars

\* ---- C6
\* The step observed in `last` was a button press that typed a Yubico OTP.
YubicoPress(l, k) == l.op = "button" /\ l.ret = 0 /\ k.kind = "otp"

\* C6: for two button presses in a row on a Yubico-OTP slot whose file holds
\* its counter area with a use counter of at most 0x7FFF, as Configure and
\* presses leave it, the use counter of the second OTP is not below that of
\* the first, and with equal use counters the session counter of the second
\* is that of the first plus one modulo 256 - greater below 0x7FFF, and
\* going from 255 to 0 only while the use counter sits at 0x7FFF.
C6_SuccessiveOtps ==
    [][(/\ YubicoPress(last, kbd)
        /\ YubicoPress(last', kbd')
        /\ last'.arg[1] = last.arg[1]
        /\ last.arg[2]
        /\ last'.arg[2]
        /\ kbd.counter <= 32767)
       => (/\ kbd'.counter >= kbd.counter
           /\ kbd'.counter <= 32767
           /\ kbd'.counter = kbd.counter => kbd'.session = (kbd.session + 1) % 256
           /\ (kbd'.counter = kbd.counter /\ kbd.counter < 32767)
                 => kbd'.session > kbd.session)]_vars

\* The second of two presses on slot 2: the use counter sits at 0x7FFF and
\* the session counter has wrapped from 255 to 0.
C6_Witness ==
    /\ YubicoPress(last, kbd)
    /\ last.arg = <<2, TRUE>>
    /\ steps = 2
    /\ kbd.counter = 32767
    /\ kbd.session = 0
    /\ UseCounter(files[EF_OTP_SLOT2]) = 32767

\* ---- C7
\* Where the record of this slot file is after the step: in the other slot
\* after a successful swap.
SlotAfter(l, fs, ret, ef) ==
    IF OtpCmd(l, {6}) /\ cap_supported(fs, CAP_OTP) /\ ret = SW_OK
    THEN (IF ef = EF_OTP_SLOT1 THEN EF_OTP_SLOT2 ELSE EF_OTP_SLOT1)
    ELSE ef

\* C7 as stated: under button presses, power cycles, status queries, updates
\* and swaps the stored use counter of a Yubico-OTP slot never decreases and
\* never exceeds 0x7FFF.
C7_AsStated ==
    [][(/\ last'.op \in {"button", "power", "otp_select", "man_select", "otp_apdu",
                         "wait_button"}
        /\ ~OtpCmd(last', {1, 3}))
       => \A ef \in {EF_OTP_SLOT1, EF_OTP_SLOT2} :
             (/\ IsYubicoOtp(files[ef])
              /\ HasCounterArea(files[ef])
              /\ UseCounter(files[ef]) <= 32767)
             => (/\ HasCounterArea(files'[SlotAfter(last', files, sw', ef)])
                 /\ UseCounter(files'[SlotAfter(last', files, sw', ef)])
                       >= UseCounter(files[ef])
                 /\ UseCounter(files'[SlotAfter(last', files, sw', ef)]) <= 32767)]_vars

\* The same with Update left out
C7_WithoutUpdate ==
    [][(/\ last'.op \in {"button", "power", "otp_select", "man_select", "otp_apdu",
                         "wait_button"}
        /\ ~OtpCmd(last', {1, 3, 4, 5}))
       => \A ef \in {EF_OTP_SLOT1, EF_OTP_SLOT2} :
             (/\ IsYubicoOtp(files[ef])
              /\ HasCounterArea(files[ef])
              /\ UseCounter(files[ef]) <= 32767)
             => (/\ HasCounterArea(files'[SlotAfter(last', files, sw', ef)])
                 /\ UseCounter(files'[SlotAfter(last', files, sw', ef)])
                       >= UseCounter(files[ef])
                 /\ UseCounter(files'[SlotAfter(last', files, sw', ef)]) <= 32767)]_vars

\* ---- C8
\* C8 as stated: a successful Update of a populated slot persists the merged
\* record and leaves the 8-byte counter area of the slot as it was.
C8_AsStated ==
    [][(/\ OtpCmd(last', {4, 5})
        /\ cap_supported(files, CAP_OTP)
        /\ HasCounterArea(files[Target(last')])
        /\ sw' = SW_OK)
       => (/\ Bytes(files'[Target(last')], 0, otp_config_size)
                = Bytes(apdu'.data, 0, otp_config_size)
           /\ HasCounterArea(files'[Target(last')])
           /\ Bytes(files'[Target(last')], otp_config_size, 8)
                = Bytes(files[Target(last')], otp_config_size, 8))]_vars

\* ---- C9
\* C9: a successful Update of a populated slot leaves the stored fixed_data,
\* uid, aes_key and fixed_size as they were, whatever the candidate carries.
C9_UpdateKeepsIdentity ==
    [][(/\ OtpCmd(last', {4, 5})
        /\ cap_supported(files, CAP_OTP)
        /\ file_has_data(files[Target(last')])
        /\ sw' = SW_OK)
       => (/\ cfg_fixed_data(files'[Target(last')]) = cfg_fixed_data(files[Target(last')])
           /\ cfg_uid(files'[Target(last')]) = cfg_uid(files[Target(last')])
           /\ cfg_aes_key(files'[Target(last')]) = cfg_aes_key(files[Target(last')])
           /\ cfg_fixed_size(files'[Target(last')])
                = cfg_fixed_size(files[Target(last')]))]_vars

\* An Update took effect on slot 1 (the flag bits of the candidate are
\* stored) while the candidate carried other identity bytes.
C9_Witness ==
    /\ OtpCmd(last, {4})
    /\ sw = SW_OK
    /\ file_has_data(files[EF_OTP_SLOT1])
    /\ cfg_ext_flags(files[EF_OTP_SLOT1]) = 255
    /\ cfg_ext_flags(Sent(last)) = 255
    /\ cfg_uid(Sent(last)) # cfg_uid(files[EF_OTP_SLOT1])
    /\ cfg_fixed_data(Sent(last)) # cfg_fixed_data(files[EF_OTP_SLOT1])
    /\ cfg_aes_key(Sent(last)) # cfg_aes_key(files[EF_OTP_SLOT1])
    /\ cfg_fixed_size(Sent(last)) # cfg_fixed_size(files[EF_OTP_SLOT1])

\* ---- C10
\* The step observed in `last` was a button press that typed an OATH code.
OathPress(l, k) == l.op = "button" /\ l.ret = 0 /\ k.kind = "hotp"

StoredImf(f) == Bytes(f, otp_config_size, 8)

\* C10 as stated: every press on an OATH-HOTP slot adds exactly one to the
\* stored moving factor, so K presses add K - also on a slot whose stored
\* moving factor is 0 and whose uid[4..6] is not.
C10_AsStated ==
    [][(/\ OathPress(last', kbd')
        /\ HasCounterArea(files[SlotFile(last'.arg[1])]))
       => StoredImf(files'[SlotFile(last'.arg[1])])
             = Inc64(StoredImf(files[SlotFile(last'.arg[1])]))]_vars

\* C10 (amended): a press on an OATH-HOTP slot whose file holds the counter
\* area types the code for moving factor M and stores M + 1 modulo 2^64,
\* where M is the stored value, or uid[4..6] as a big-endian 16-bit number
\* when the stored value is 0.
C10_MovingFactor ==
    [][(/\ OathPress(last', kbd')
        /\ HasCounterArea(files[SlotFile(last'.arg[1])]))
       => (/\ kbd'.imf =
                 IF StoredImf(files[SlotFile(last'.arg[1])]) = Zeros(8)
                 THEN Zeros(6) \o Bytes(cfg_uid(files[SlotFile(last'.arg[1])]), 4, 2)
                 ELSE StoredImf(files[SlotFile(last'.arg[1])])
           /\ StoredImf(files'[SlotFile(last'.arg[1])]) = IncBytes(kbd'.imf)
           /\ Bytes(files'[SlotFile(last'.arg[1])], 0, otp_config_size)
                 = Bytes(files[SlotFile(last'.arg[1])], 0, otp_config_size))]_vars

\* The first press on a slot with stored moving factor 0 and uid[4..6] =
\* 0x0102: the code is for 0x0102 and 0x0103 is stored.
C10_Witness ==
    /\ OathPress(last, kbd)
    /\ last.arg = <<2, TRUE>>
    /\ kbd.imf = <<0, 0, 0, 0, 0, 0, 1, 2>>
    /\ StoredImf(files[EF_OTP_SLOT2]) = <<0, 0, 0, 0, 0, 0, 1, 3>>

\* ---- C11
\* The step observed in `last` was a Swap that returned 0x9000.
SwapDone(l, ret) == OtpCmd(l, {6}) /\ ret = SW_OK

\* C11 as stated: after a Swap slot 1 holds exactly what slot 2 held and
\* slot 2 exactly what slot 1 held (no data where there was none), whatever
\* produced the stored contents.
C11_AsStated ==
    [][SwapDone(last', sw')
       => (/\ files'[EF_OTP_SLOT1] = files[EF_OTP_SLOT2]
           /\ files'[EF_OTP_SLOT2] = files[EF_OTP_SLOT1])]_vars

\* The same for a store whose slot 1 holds no data or record and counter area
C11_FullSlots ==
    [][(/\ SwapDone(last', sw')
        /\ ~file_has_data(files[EF_OTP_SLOT1]) \/ HasCounterArea(files[EF_OTP_SLOT1]))
       => (/\ files'[EF_OTP_SLOT1] = files[EF_OTP_SLOT2]
           /\ files'[EF_OTP_SLOT2] = files[EF_OTP_SLOT1])]_vars

\* ---- C12
\* C12 as stated: two Swap commands in a row leave both slots with the
\* presence, record and counter area they had before the first.
C12_AsStated ==
    [][(SwapDone(last, sw) /\ SwapDone(last', sw'))
       => (/\ files'[EF_OTP_SLOT1] = before_swap[EF_OTP_SLOT1]
           /\ files'[EF_OTP_SLOT2] = before_swap[EF_OTP_SLOT2])]_vars

\* The same for a store whose slots hold no data or record and counter area
C12_FullSlots ==
    [][(/\ SwapDone(last, sw)
        /\ SwapDone(last', sw')
        /\ \A ef \in {EF_OTP_SLOT1, EF_OTP_SLOT2} :
              ~file_has_data(before_swap[ef]) \/ HasCounterArea(before_swap[ef]))
       => (/\ files'[EF_OTP_SLOT1] = before_swap[EF_OTP_SLOT1]
           /\ files'[EF_OTP_SLOT2] = before_swap[EF_OTP_SLOT2])]_vars

\* ---- C13
\* C13 as stated: a Configure whose first 58 bytes are zero, sent to a
\* populated slot with the stored access code behind them, succeeds and
\* deletes the slot; the status block has CONFIG_VALID clear.
C13_AsStated ==
    [][(/\ OtpCmd(last', {1, 3})
        /\ cap_supported(files, CAP_OTP)
        /\ Bytes(Sent(last'), 0, SpecRecordSize) = Zeros(SpecRecordSize)
        /\ file_has_data(files[Target(last')])
        /\ cfg_acc_code(files[Target(last')])
             = Bytes(Sent(last'), SpecRecordSize, ACC_CODE_SIZE))
       => (/\ sw' = SW_OK
           /\ files'[Target(last')] = <<>>
           /\ Len(res_APDU') = 7
           /\ ~HasFlag(res_APDU'[5], ValidBit(Target(last'))))]_vars

\* C13 (amended): a Configure whose first 52 bytes (sizeof(otp_config_t))
\* are zero, sent to a populated slot whose stored acc_code equals the 6
\* bytes at APDU offset 52, returns 0x9000 without an rfu/CRC check and
\* deletes the slot: it has no data, the other files are as before, the
\* status block has CONFIG_VALID clear and config_seq + 1 modulo 256.
C13_Delete ==
    [][(/\ OtpCmd(last', {1, 3})
        /\ cap_supported(files, CAP_OTP)
        /\ Bytes(Sent(last'), 0, otp_config_size) = Zeros(otp_config_size)
        /\ file_has_data(files[Target(last')])
        /\ cfg_acc_code(files[Target(last')])
             = Bytes(Sent(last'), otp_config_size, ACC_CODE_SIZE))
       => (/\ sw' = SW_OK
           /\ files' = [files EXCEPT ![Target(last')] = <<>>]
           /\ Len(res_APDU') = 7
           /\ ~HasFlag(res_APDU'[5], ValidBit(Target(last')))
           /\ res_APDU'[4] = (config_seq + 1) % 256
           /\ config_seq' = (config_seq + 1) % 256)]_vars

\* Slot 1, protected by AccA, was deleted by a zero record followed by AccA;
\* the CRC of the zero record is not the residue.
C13_Witness ==
    /\ OtpCmd(last, {1})
    /\ Sent(last) = Payload(RecZero, AccA, AccNone)
    /\ ~Valid52(Sent(last))
    /\ steps = 1
    /\ sw = SW_OK
    /\ config_seq = 0
    /\ ~file_has_data(files[EF_OTP_SLOT1])
    /\ file_has_data(files[EF_OTP_SLOT2])
    /\ res_APDU[5] = CONFIG2_VALID

\* ---- C14
ChalP1 == {32, 40, 48, 56}

\* The slot file a challenge-response APDU addresses
ChalTarget(l) == IF l.arg[1][3] \in {48, 32} THEN EF_OTP_SLOT1 ELSE EF_OTP_SLOT2

\* C14 as stated: a challenge-response command on a slot that has no data
\* or whose tkt_flags lack CHAL_RESP returns 0x6A80 with no response body.
C14_AsStated ==
    [][(/\ OtpCmd(last', ChalP1)
        /\ cap_supported(files, CAP_OTP)
        /\ \/ ~file_has_data(files[ChalTarget(last')])
           \/ ~HasFlag(cfg_tkt_flags(files[ChalTarget(last')]), CHAL_RESP))
       => (/\ sw' = SW_WRONG_DATA
           /\ res_APDU' = <<>>)]_vars

\* What the code does there: no body in either case, 0x6A80 for a slot
\* without CHAL_RESP, 0x9000 for a slot without data.
C14_Refusals ==
    [][(/\ OtpCmd(last', ChalP1)
        /\ cap_supported(files, CAP_OTP)
        /\ \/ ~file_has_data(files[ChalTarget(last')])
           \/ ~HasFlag(cfg_tkt_flags(files[ChalTarget(last')]), CHAL_RESP))
       => (/\ sw' = IF file_has_data(files[ChalTarget(last')])
                    THEN SW_WRONG_DATA ELSE SW_OK
           /\ res_APDU' = <<>>
           /\ pc' = "idle"
           /\ files' = files
           /\ status_byte' = status_byte)]_vars

\* ---- C15
\* C15 as stated: an HMAC command (0x30/0x38) on a slot configured for
\* Yubico challenge-response only (cfg_flags = CHAL_YUBICO) or for OATH-HOTP,
\* and a Yubico command (0x20/0x28) on a slot without CHAL_YUBICO, return
\* 0x6A80 and produce no output.
C15_AsStated ==
    [][(/\ OtpCmd(last', ChalP1)
        /\ cap_supported(files, CAP_OTP)
        /\ file_has_data(files[ChalTarget(last')])
        /\ \/ /\ last'.arg[1][3] \in {48, 56}
              /\ \/ /\ HasFlag(cfg_tkt_flags(files[ChalTarget(last')]), CHAL_RESP)
                    /\ cfg_cfg_flags(files[ChalTarget(last')]) = CHAL_YUBICO
                 \/ cfg_tkt_flags(files[ChalTarget(last')]) = OATH_HOTP
           \/ /\ last'.arg[1][3] \in {32, 40}
              /\ ~HasFlag(cfg_cfg_flags(files[ChalTarget(last')]), CHAL_YUBICO))
       => (/\ sw' = SW_WRONG_DATA
           /\ res_APDU' = <<>>)]_vars

\* The same with the Yubico-only slot left out
C15_OtherModes ==
    [][(/\ OtpCmd(last', ChalP1)
        /\ cap_supported(files, CAP_OTP)
        /\ file_has_data(files[ChalTarget(last')])
        /\ \/ /\ last'.arg[1][3] \in {48, 56}
              /\ cfg_tkt_flags(files[ChalTarget(last')]) = OATH_HOTP
              /\ cfg_cfg_flags(files[ChalTarget(last')]) = 0
           \/ /\ last'.arg[1][3] \in {32, 40}
              /\ ~HasFlag(cfg_cfg_flags(files[ChalTarget(last')]), CHAL_YUBICO))
       => (/\ sw' = SW_WRONG_DATA
           /\ res_APDU' = <<>>)]_vars

\* ------------------------------------------- cap_supported on its inputs
Caps == {CAP_OTP, CAP_U2F, CAP_OPENPGP, CAP_PIV, CAP_OATH, CAP_FIDO2}

\* Device configurations as lists of <<tag, value>>, and the bytes
\* cmd_write_config stores for them.
TlvValues == {<<0>>, <<1>>, <<CAP_OTP + CAP_U2F + CAP_OATH>>, <<255>>,
              <<2, 0>>, <<0, CAP_U2F>>, <<2, CAP_OTP + CAP_U2F + CAP_OATH>>, <<3, 1>>}

Tlvs == {<<t, v>> : t \in {TAG_USB_ENABLED, TAG_DEVICE_FLAGS}, v \in TlvValues}

TlvLists == {<<>>} \cup {<<a>> : a \in Tlvs} \cup {<<a, b>> : a \in Tlvs, b \in Tlvs}

RECURSIVE Encode(_)
Encode(tlvs) ==
    IF tlvs = <<>> THEN <<>>
    ELSE <<tlvs[1][1], Len(tlvs[1][2])>> \o tlvs[1][2] \o Encode(Tail(tlvs))

CapInit ==
    /\ \E tlvs \in TlvLists :
          /\ Holds(PowerUp([Flash(<<>>, <<>>) EXCEPT ![EF_DEV_CONF] = Encode(tlvs)], TRUE))
          /\ last = [op |-> "power", ret |-> 0, arg |-> <<tlvs>>]
    /\ before_swap = <<>>
    /\ emitted = {}
    /\ steps = 0
    /\ HidPowerUp
    /\ rdata = "apdu"

\* cap_supported(cap) is called; last.ret is what it returns.
CapQuery ==
    /\ \E cap \in Caps :
          last' = [op |-> "cap_supported",
                   ret |-> IF cap_supported(files, cap) THEN 1 ELSE 0,
                   arg |-> <<last.arg[1], cap>>]
    /\ UNCHANGED <<files, phy_kb, config_seq, status_byte, session_counter, scanned, app,
                   apdu, res_APDU, sw, pc, kbd, before_swap, emitted, steps>>
    /\ UNCHANGED hid_vars

CapSpec == CapInit /\ [][CapQuery]_vars

\* the TAG_USB_ENABLED values of a configuration, in order
RECURSIVE Enabled(_)
Enabled(tlvs) ==
    IF tlvs = <<>> THEN <<>>
    ELSE (IF tlvs[1][1] = TAG_USB_ENABLED THEN <<tlvs[1][2]>> ELSE <<>>)
         \o Enabled(Tail(tlvs))

\* the bitmap of a 1- or 2-byte value: one byte is its low byte
Bitmap(v) == IF Len(v) = 1 THEN v[1] ELSE v[1] * 256 + v[2]

\* C20: cap_supported(c) is true when EF_DEV_CONF has no data or no
\* TAG_USB_ENABLED TLV; with the TLV (a value of 1 or 2 bytes) it is true
\* exactly when bit c is set in the bitmap, a 1-byte value being the low byte.
C20_CapSupported ==
    last.op = "cap_supported"
    => LET on == Enabled(last.arg[1])
       IN (last.ret = 1) <=> (on = <<>> \/ BitAnd(Bitmap(on[1]), last.arg[2]) = last.arg[2])

\* CAP_FIDO2 (bit 9) asked of a 2-byte bitmap that follows another TLV and
\* has the bit set, and answered true.
C20_Witness ==
    /\ last.op = "cap_supported"
    /\ last.arg[2] = CAP_FIDO2
    /\ last.arg[1] = <<<<TAG_DEVICE_FLAGS, <<3, 1>>>>, <<TAG_USB_ENABLED, <<2, 0>>>>>>
    /\ last.ret = 1
    /\ files[EF_DEV_CONF] = <<TAG_DEVICE_FLAGS, 2, 3, 1, TAG_USB_ENABLED, 2, 2, 0>>

\* ------------------------------------------------- claims on the HID side
\* A GET_REPORT answered by the status builder: bytes 1..7 are the status
\* block and byte 7 has no 0x40.
StatusReport(r, d) == Bytes(r, 1, 7) = StatusBlock(d)

\* what a command can change in the device
device_vars == <<files, phy_kb, config_seq, status_byte, session_counter, kbd>>

\* what a reply being armed changes
reply_vars == <<otp_frame_tx, send_buffer_size, otp_exp_seq, otp_curr_seq>>

KnownP1 == {1, 3, 4, 5, 6, 16, 19, 32, 40, 48, 56}

\* The step completed a frame with a good CRC and command byte p1.
HidDispatched(l, rx, p1s) ==
    /\ l.op = "set_report"
    /\ l.arg[1][8] = 128 + 9
    /\ ~BadCrc(rx)
    /\ rx[65] \in p1s

\* C16: a challenge-response on a CHAL_BTN_TRIG slot enters the button wait
\* with status_byte = 0x20, and every status report served during the wait
\* shows 0x20; an aborted wait returns 0x6985 with status_byte 0x00, no MAC or
\* ciphertext and no reply; otherwise the computation goes on from status_byte
\* 0x10: it ends with the response and status_byte 0x00, or is refused with
\* 0x6A80 and status_byte still 0x10.
C16_ButtonWait ==
    [][/\ (pc' = "wait_button" => status_byte' = 32)
       /\ ((pc # "wait_button" /\ pc' = "wait_button")
           => HasFlag(cfg_cfg_flags(files[ChalTarget([arg |-> <<apdu'.header>>])]),
                      CHAL_BTN_TRIG))
       /\ ((pc = "wait_button" /\ last'.op = "get_report" /\ BitAnd(report'[8], 64) = 0)
           => (report'[8] = 32 /\ StatusReport(report', Dev) /\ pc' = "wait_button"))
       /\ ((last'.op = "wait_button" /\ last'.arg[1])
           => (/\ sw' = SW_CONDITIONS_NOT_SATISFIED
               /\ status_byte' = 0
               /\ res_APDU' \in {<<>>, StatusBlock(Dev)'}
               /\ otp_frame_tx' \in {otp_frame_tx, Overwrite(otp_frame_tx, 1, StatusBlock(Dev)')}
               /\ UNCHANGED <<send_buffer_size, otp_exp_seq, otp_curr_seq, reply>>))
       /\ ((last'.op = "wait_button" /\ ~last'.arg[1])
           => \/ sw' = SW_OK /\ status_byte' = 0 /\ Len(res_APDU') \in {16, 20}
              \/ sw' = SW_WRONG_DATA /\ status_byte' = 16 /\ res_APDU' = <<>>)]_vars

\* An aborted wait during which the host read a status report with 0x20.
C16_Witness ==
    /\ last.op = "wait_button"
    /\ last.arg[1]
    /\ sw = SW_CONDITIONS_NOT_SATISFIED
    /\ status_byte = 0
    /\ report[8] = 32
    /\ rdata = "buffer"

\* C17 as stated: INS 0x01 with P2 = 0 and a P1 outside the known ones
\* returns SW_OK with an empty body and changes nothing; over HID it arms no
\* reply, whatever was processed before.
C17_AsStated ==
    [][HidDispatched(last', otp_frame_rx', 0..255 \ KnownP1)
       => (/\ last'.ret = SW_OK
           /\ res_APDU' = <<>>
           /\ UNCHANGED device_vars
           /\ UNCHANGED reply_vars)]_vars

\* The same without the reply: the status word and the device state.
C17_StateKept ==
    [][HidDispatched(last', otp_frame_rx', 0..255 \ KnownP1)
       => (/\ last'.ret = SW_OK
           /\ res_APDU' = Bytes(otp_frame_tx, 0, Len(res_APDU))
           /\ UNCHANGED device_vars)]_vars

\* C18: a seq-9 fragment that completes a frame whose CRC does not match is
\* dropped: the dispatcher does not run, no slot, config_seq or status_byte
\* changes and no reply is armed; when a 0xFF reset came before it, the next
\* GET_REPORT is a status report.
C18_BadCrcDropped ==
    [][/\ ((last'.op = "set_report" /\ last'.arg[1][8] = 128 + 9 /\ BadCrc(otp_frame_rx'))
           => (/\ last'.ret = 0
               /\ UNCHANGED device_vars
               /\ UNCHANGED <<apdu, res_APDU, sw, pc, scanned, rdata>>
               /\ UNCHANGED reply_vars))
       /\ ((last'.op = "get_report" /\ reply.state = "reset" /\ reply.dropped)
           => (StatusReport(report', Dev) /\ BitAnd(report'[8], 64) = 0))]_vars

\* A reset, the ten fragments of the frame with the bad CRC, a GET_REPORT.
C18_Witness ==
    /\ last.op = "get_report"
    /\ reply.state = "reset"
    /\ reply.dropped
    /\ otp_frame_rx = BadCrcFrame
    /\ StatusReport(report, Dev)
    /\ sw = 0

\* fragment k of a reply, as the host expects it
Slice(body, k) ==
    [i \in 1..7 |-> IF 7 * k + i <= Len(body) THEN body[7 * k + i] ELSE 0] \o <<64 + k>>

Sentinel == Zeros(7) \o <<64>>

ConfBlobs ==
    {<<>>, <<TAG_USB_ENABLED, 1, CAP_OTP + CAP_U2F>>, <<TAG_USB_ENABLED, 2, 2, CAP_U2F>>,
     DevConf14, ConfOf(238)}

\* INS 0x1C with payload len || bytes[len], one with a wrong len; INS 0x1D
ConfCommands ==
    {<<<<0, INS_WRITE_CONFIG, 0, 0>>, <<Len(b)>> \o b>> : b \in ConfBlobs}
    \cup {<<<<0, INS_WRITE_CONFIG, 0, 0>>, <<9, TAG_USB_ENABLED, 1, CAP_U2F>>>>,
          <<<<0, INS_READ_CONFIG, 0, 0>>, <<>>>>}

\* The Management applet selected, with or without a configuration stored.
ManInit ==
    /\ \E kb \in BOOLEAN : \E conf \in {<<>>, <<TAG_USB_ENABLED, 2, 2, CAP_U2F>>} :
          Holds([PowerUp([Flash(Stored(RecY, Counter16(5)), <<>>)
                            EXCEPT ![EF_DEV_CONF] = conf], kb)
                   EXCEPT !.app = "man", !.scanned = TRUE])
    /\ last = [op |-> "man_select", ret |-> SW_OK, arg |-> <<FALSE>>]
    /\ before_swap = <<>>
    /\ emitted = {}
    /\ steps = 0
    /\ HidPowerUp
    /\ rdata = "apdu"

ManConfApdu ==
    /\ pc = "idle"
    /\ app = "man"
    /\ \E c \in ConfCommands :
          LET s == man_process_apdu(Received(c[1], c[2]), FALSE)
          IN Step(s, "man_apdu", s.sw, c)

ManSpec == ManInit /\ [][ManConfApdu \/ ManSelect \/ PowerCycle]_vars

\* ------------------------------------------------- claims on Management
ManCmd(l, ins) == l.op = "man_apdu" /\ l.arg[1] = <<0, ins, 0, 0>>

\* the supported, serial, form-factor and version TLVs of section 3.4
ConfHead ==
    <<TAG_USB_SUPPORTED, 2, 2, 35, TAG_SERIAL, 4, 2, 97, 130, 4, TAG_FORM_FACTOR, 1, 1,
      TAG_VERSION, 3, 5, 7, 0>>

\* The write-config was accepted: data[0] = nc - 1.
WriteAccepted(l) ==
    /\ ManCmd(l, INS_WRITE_CONFIG)
    /\ Len(l.arg[2]) > 0
    /\ l.arg[2][1] = Len(l.arg[2]) - 1

\* C21 as stated: an accepted write-config stores data[1..nc) as EF_DEV_CONF
\* and leaves the keyboard interface enabled exactly when OTP is enabled
\* under the new blob; the read-config that follows it returns one byte
\* holding the length of what follows, the four TLVs, then the stored blob.
C21_AsStated ==
    [][/\ (WriteAccepted(last')
           => (/\ sw' = SW_OK
               /\ files'[EF_DEV_CONF] = Tail(last'.arg[2])
               /\ phy_kb' = cap_supported(files', CAP_OTP)))
       /\ ((ManCmd(last', INS_READ_CONFIG) /\ WriteAccepted(last))
           => (/\ sw' = SW_OK
               /\ res_APDU' = <<Len(ConfHead) + Len(Tail(last.arg[2]))>> \o ConfHead
                              \o Tail(last.arg[2])))]_vars

\* The same for stored blobs of 1 to 237 bytes, which one length byte covers.
C21_BlobsThatFit ==
    [][/\ (WriteAccepted(last')
           => (/\ sw' = SW_OK
               /\ files'[EF_DEV_CONF] = Tail(last'.arg[2])
               /\ phy_kb' = cap_supported(files', CAP_OTP)))
       /\ ((ManCmd(last', INS_READ_CONFIG) /\ Len(files[EF_DEV_CONF]) \in 1..237)
           => (/\ sw' = SW_OK
               /\ res_APDU' = <<Len(ConfHead) + Len(files[EF_DEV_CONF])>> \o ConfHead
                              \o files[EF_DEV_CONF]))]_vars

\* A read-config of a stored 238-byte blob: the length byte reads 0.
C21_LengthByteWraps ==
    /\ ManCmd(last, INS_READ_CONFIG)
    /\ files[EF_DEV_CONF] = ConfOf(238)
    /\ res_APDU = <<0>> \o ConfHead \o ConfOf(238)

\* A read-config after an accepted write-config of no bytes: the default
\* TLVs are returned.
C21_EmptyBlobDefaults ==
    /\ ManCmd(last, INS_READ_CONFIG)
    /\ files[EF_DEV_CONF] = <<>>
    /\ Len(res_APDU) = 1 + Len(ConfHead) + 10

\* ------------------------------------------- the OTP capability disabled
\* Configurations whose TAG_USB_ENABLED lacks CAP_OTP
OffConfs == {<<TAG_USB_ENABLED, 2, 2, CAP_U2F>>, <<TAG_USB_ENABLED, 1, CAP_U2F>>}

\* After the write-config that disabled OTP: still in the session that sent
\* it (Management selected, slots scanned), or powered up again since.
OffInit ==
    /\ \E fs \in {[Flash(Stored(RecY, Counter16(5)), Stored(RecH, Zeros(8)))
                      EXCEPT ![EF_DEV_CONF] = <<TAG_USB_ENABLED, 2, 2, CAP_U2F>>],
                   [Flash(Stored(RecC, Zeros(8)), Stored(RecY, Counter16(32767)))
                      EXCEPT ![EF_DEV_CONF] = <<TAG_USB_ENABLED, 1, CAP_U2F>>]} :
          \/ Holds(PowerUp(fs, FALSE))
          \/ Holds([PowerUp(fs, FALSE) EXCEPT !.app = "man", !.scanned = TRUE])
    /\ last = [op |-> "power", ret |-> 0, arg |-> <<>>]
    /\ before_swap = <<>>
    /\ emitted = {}
    /\ steps = 0
    /\ HidPowerUp
    /\ rdata = "apdu"

OffSpec ==
    OffInit
    /\ [][OtpSelect \/ ButtonPressed \/ HidSendsFragment \/ HidSendsLastOnly
           \/ HidGetReport]_vars

\* ------------------------------------------ claims on the disabled state
OtpOff == files[EF_DEV_CONF] \in OffConfs

\* The step ran otp_process_apdu: an OTP APDU, or a HID frame completed
\* with a good CRC.
OtpEntered(l, rx) == l.op = "otp_apdu" \/ HidDispatched(l, rx, 0..255)

\* C22 as stated: while the stored TAG_USB_ENABLED lacks the OTP bit, the OTP
\* select is refused, OTP APDUs and HID frames return SW_INS_NOT_SUPPORTED
\* and arm no reply, and a button press returns 3, emits no keystrokes and
\* leaves both slot files (record and counter area) as they were.
C22_AsStated ==
    [][OtpOff
       => (/\ (last'.op = "otp_select" => (last'.ret # SW_OK /\ app' # "otp"))
           /\ (OtpEntered(last', otp_frame_rx')
               => (last'.ret = SW_INS_NOT_SUPPORTED /\ UNCHANGED reply_vars))
           /\ (last'.op = "button"
               => (/\ last'.ret = 3
                   /\ kbd' = kbd
                   /\ files' = files)))]_vars

\* The same, but for the counter area under a button press that is the
\* first call of init_otp since power-up.
C22_ButScan ==
    [][OtpOff
       => (/\ (last'.op = "otp_select" => (last'.ret # SW_OK /\ app' # "otp"))
           /\ (OtpEntered(last', otp_frame_rx')
               => (last'.ret = SW_INS_NOT_SUPPORTED /\ UNCHANGED reply_vars))
           /\ (last'.op = "button"
               => (/\ last'.ret = 3
                   /\ kbd' = kbd
                   /\ (scanned => files' = files)
                   /\ files'[EF_DEV_CONF] = files[EF_DEV_CONF]
                   /\ \A f \in {EF_OTP_SLOT1, EF_OTP_SLOT2} :
                         Bytes(files'[f], 0, otp_config_size)
                         = Bytes(files[f], 0, otp_config_size))))]_vars

\* A refused button press has raised the stored use counter of slot 1.
C22_CounterMoved ==
    /\ OtpOff
    /\ last.op = "button"
    /\ last.ret = 3
    /\ files[EF_OTP_SLOT1] = Stored(RecY, Counter16(6))

\* ------------------------------------------------- Update and the flags
UpdInit ==
    /\ \E f1 \in StoredFlags, f2 \in StoredFlags :
          Holds(Running(Flash(Stored(FlagRec[f1], Zeros(8)), Stored(FlagRec[f2], Zeros(8))),
                        1, <<0, 0>>))
    /\ last = [op |-> "otp_select", ret |-> SW_OK, arg |-> <<>>]
    /\ before_swap = <<>>
    /\ emitted = {}
    /\ steps = 0
    /\ HidPowerUp
    /\ rdata = "apdu"

UpdApdu ==
    /\ pc = "idle"
    /\ app = "otp"
    /\ \E p1 \in {4, 5}, fl \in CandidateFlags :
          LET c == <<<<0, INS_OTP, p1, 0>>, Payload(FlagRec[fl], AccNone, AccNone)>>
              s == otp_process_apdu(Received(c[1], c[2]), FALSE, Zeros(8))
          IN Step(s, "otp_apdu", s.sw, c)

UpdSpec == UpdInit /\ [][UpdApdu]_vars

\* ---------------------------------------------------- claims on Update
\* bit b (0 the lowest) of the byte x
Bit(x, b) == (x \div (2 ^ b)) % 2

\* The byte `after` has the bits of `new` at the positions in `mutable` and
\* the bits of `stored` elsewhere.
Rebuilt(after, stored, new, mutable) ==
    \A b \in 0..7 : Bit(after, b) = IF b \in mutable THEN Bit(new, b) ELSE Bit(stored, b)

\* TAB_FIRST, APPEND_TAB1, APPEND_TAB2, APPEND_DELAY1, APPEND_DELAY2, APPEND_CR
TktMutable == {0, 1, 2, 3, 4, 5}

\* PACING_10MS, PACING_20MS
CfgMutable == {2, 3}

\* C23: after a successful Update of a populated slot, tkt_flags has the
\* candidate's bits in TAB_FIRST..APPEND_CR and the stored bits elsewhere (the
\* mode bit 0x40 is the stored one), ext_flags is rebuilt under its mask, and
\* cfg_flags is the stored byte when the stored mode bit 0x40 is set and else
\* the stored byte with the candidate's PACING_10MS and PACING_20MS bits.
C23_UpdateFlags ==
    [][(/\ OtpCmd(last', {4, 5})
        /\ file_has_data(files[Target(last')])
        /\ sw' = SW_OK)
       => LET stored == files[Target(last')]
              after == files'[Target(last')]
              new == Sent(last')
          IN /\ Rebuilt(cfg_tkt_flags(after), cfg_tkt_flags(stored), cfg_tkt_flags(new),
                        TktMutable)
             /\ Bit(cfg_tkt_flags(after), 6) = Bit(cfg_tkt_flags(stored), 6)
             /\ cfg_ext_flags(after)
                  = BitOr(BitAnd(cfg_ext_flags(stored), 255 - EXTFLAG_UPDATE_MASK),
                          BitAnd(cfg_ext_flags(new), EXTFLAG_UPDATE_MASK))
             /\ IF Bit(cfg_tkt_flags(stored), 6) = 1
                THEN cfg_cfg_flags(after) = cfg_cfg_flags(stored)
                ELSE Rebuilt(cfg_cfg_flags(after), cfg_cfg_flags(stored), cfg_cfg_flags(new),
                             CfgMutable)]_vars

\* An Update with every flag bit clear went through on a slot that had
\* PACING_10MS, TAB_FIRST and bit 0x80 of tkt_flags set: the first two are
\* cleared, the third is kept.
C23_Witness ==
    /\ OtpCmd(last, {4})
    /\ sw = SW_OK
    /\ cfg_tkt_flags(Sent(last)) = 0
    /\ cfg_cfg_flags(Sent(last)) = 0
    /\ cfg_tkt_flags(files[EF_OTP_SLOT1]) = 128
    /\ cfg_cfg_flags(files[EF_OTP_SLOT1]) = STATIC_TICKET

\* ------------------------------------------- the OTPs of a stored record
\* The device after power-up and one button press on slot 1.
AfterPress(fs) ==
    LET t == init_otp(PowerUp(fs, TRUE), Bytes(fs[EF_OTP_SLOT1], otp_config_size, 8), Zeros(8))
    IN button_emit(t, 1, Bytes(t.files[EF_OTP_SLOT1], otp_config_size, 8))

ReuseInit ==
    /\ \E fs \in {Flash(Stored(RecY, Counter16(5)), <<>>),
                   Flash(Stored(RecY, Counter16(5)), Stored(RecH, Zeros(8)))} :
          \/ /\ Holds(PowerUp(fs, TRUE))
             /\ last = [op |-> "power", ret |-> 0, arg |-> <<>>]
             /\ emitted = {}
          \/ LET r == AfterPress(fs)
             IN /\ Holds(r.s)
                /\ last = [op |-> "button", ret |-> r.ret, arg |-> <<1, TRUE>>]
                /\ emitted = Typed(r.s, "button", r.ret)
    /\ before_swap = <<>>
    /\ steps = 0
    /\ HidPowerUp
    /\ rdata = "apdu"

\* Swap, or an Update that presents the access code of RecY
ReuseApdu ==
    /\ pc = "idle"
    /\ app = "otp"
    /\ \E c \in {<<<<0, INS_OTP, 6, 0>>, ChallengePayload>>}
                \cup {<<<<0, INS_OTP, p1, 0>>, Payload(RecU, AccA, AccNone)>> : p1 \in {4, 5}} :
       \E stack \in SwapStacks(files) :
          LET s == otp_process_apdu(Received(c[1], c[2]), FALSE, stack)
          IN Step(s, "otp_apdu", s.sw, c)

ReuseSpec ==
    ReuseInit
    /\ [][ButtonPressed \/ PowerCycle \/ OtpSelect \/ ManSelect \/ ReuseApdu
           \/ HidGetReport]_vars

\* --------------------------------------------------- claims on OTP reuse
\* C24 as stated: a Yubico OTP typed with a use counter below 0x7FFF carries
\* a (use counter, session counter) pair that no OTP typed from the same
\* record before it carried - across presses on either slot, swaps, updates,
\* status queries, selects, GET_REPORTs and power cycles.
C24_AsStated ==
    [][(YubicoPress(last', kbd') /\ kbd'.counter < 32767)
       => <<Identity(files'[SlotFile(kbd'.slot)]), kbd'.counter, kbd'.session>>
             \notin emitted]_vars

\* -------------------------------------- the HID adapter on other stores
\* Stores a write-config of 49, 50 or 51 bytes has left (the configuration
\* read over HID is 68, 69 or 70 bytes long), and a store whose slot 1 holds
\* a challenge-response record with CHAL_BTN_TRIG and neither CHAL_HMAC nor
\* CHAL_YUBICO in cfg_flags.
EdgeInit ==
    /\ \E fs \in {[Flash(Stored(RecC, Zeros(8)), Stored(RecH, Zeros(8)))
                     EXCEPT ![EF_DEV_CONF] = ConfOf(n)] : n \in {49, 50, 51}}
                \cup {Flash(Stored(HostSeal(HostFields(Fill(16, 80), <<7, 7, 7, 7, 7, 7>>,
                                                       Fill(16, 15), AccNone, 0, 0,
                                                       CHAL_RESP, CHAL_BTN_TRIG,
                                                       <<0, 0>>)),
                                   Zeros(8)),
                            <<>>)} :
          Holds(PowerUp(fs, TRUE))
    /\ last = [op |-> "power", ret |-> 0, arg |-> <<>>]
    /\ before_swap = <<>>
    /\ emitted = {}
    /\ steps = 0
    /\ HidPowerUp
    /\ rdata = "apdu"

EdgeSpec == EdgeInit /\ [][HidNext]_vars

\* ------------------------------------------- claims on the HID adapter
\* The SET_REPORT observed in `l` made the callback run otp_process_apdu:
\* it returned a status word, or cmd_otp is waiting for the button.
HidExecuted(l, p) ==
    /\ l.op = "set_report"
    /\ l.arg[1][8] = 128 + 9
    /\ (l.ret # 0 \/ p = "wait_button")

\* C25 as stated: the adapter runs a command only when the fragment that
\* completes it is the tenth of a frame the host sent in order since its
\* seq-0 fragment; a seq-9 fragment sent on its own runs nothing.
C25_AsStated ==
    [][HidExecuted(last', pc') => host.seq = 9]_vars

\* The same for a seq-9 fragment sent on its own while otp_frame_rx holds the
\* payload of a frame the host completed before (its first byte is not 0).
C25_AfterAFrame ==
    [][(HidExecuted(last', pc') /\ otp_frame_rx[1] # 0) => host.seq = 9]_vars

\* C26 as stated: the reply being sent fits otp_frame_tx: at most 70 bytes of
\* it are left to send, otp_exp_seq <= 10, otp_curr_seq <= otp_exp_seq, and
\* the fragment the next GET_REPORT reads lies in otp_frame_tx[0..70).
C26_AsStated ==
    /\ send_buffer_size <= 70
    /\ otp_exp_seq <= 10
    /\ otp_curr_seq <= otp_exp_seq
    /\ (send_buffer_size > 0 => 7 * otp_curr_seq + Min(7, send_buffer_size) <= 70)

\* The 69-byte configuration has been armed: 71 bytes in 11 fragments.
C26_Overrun ==
    /\ last.op = "set_report"
    /\ last.ret = SW_OK
    /\ Len(res_APDU) = 69
    /\ send_buffer_size = 71
    /\ otp_exp_seq = 11

\* The eleventh fragment of it has been read, from otp_frame_tx + 70.
C26_ReadBeyond ==
    /\ last.op = "get_report"
    /\ otp_curr_seq = 11
    /\ report[8] = 64 + 10

\* C27 as stated: status_byte is 0x00 whenever no challenge-response command
\* is in progress, whatever status word the last one returned.
C27_AsStated == pc = "idle" => status_byte = 0

\* A challenge-response was refused with SW_WRONG_DATA after the button was
\* pressed, and status_byte is left at 0x10.
C27_Latched ==
    /\ last.op = "wait_button"
    /\ last.ret = SW_WRONG_DATA
    /\ pc = "idle"
    /\ status_byte = 16

\* ... and a status report served afterwards carries it.
C27_Reported ==
    /\ last.op = "get_report"
    /\ pc = "idle"
    /\ status_byte = 16
    /\ StatusReport(report, Dev)
====
